---- MODULE Spec2Model ----
(***************************************************************************)
(* A model of the delivery surfaces of the LLM council backend:            *)
(*   - the atomic HTTP endpoint          (backend/main.py, send_message)   *)
(*   - the streaming HTTP endpoint       (backend/main.py,                 *)
(*                                        send_message_stream)             *)
(*   - the voice session state machine   (backend/voice.py,                *)
(*                                        backend/openai_realtime.py)      *)
(* The council stage functions and the conversation storage are            *)
(* collaborators: every call either returns a value or raises.             *)
(***************************************************************************)
EXTENDS Integers, Sequences, FiniteSets, TLC

\* ------------------------------------------------------------------ bounds

\* HTTP message requests in flight on the conversation.
MaxReqs == 1
\* Client messages the voice client sends during one session.
MaxSent == 3
\* Configured council models.
MaxModels == 3
\* Client messages waiting in the WebSocket's receive queue.
MaxInbox == 1
\* Audio chunks the speech synthesis stream yields.
MaxTtsChunks == 1
\* Provider events read by one receive_messages call.
MaxProviderEvents == 2
\* Requests in flight at the same time for one conversation.
MaxRacing == 2
\* Users an admin creates.
MaxUsers == 2

ReqIds == 1..MaxReqs
\* The owner of a turn: an HTTP request, or the voice session.
VoiceOwner == 0
Owners == ReqIds \cup {VoiceOwner}

\* Two users; the conversation belongs to the first.
Users == {"alice", "bob"}
ConvOwner == "alice"

\* ------------------------------------------------------------- data values

\* Opaque results of the collaborators.  Stage 3's result is represented by
\* its "response" text, which may be empty.
\* The results are tagged with the turn that produced them.
\* Stage 1's result with no successful answer in it.
NoAnswers(turn) == "s1none_" \o turn
Stage1Results(turn) == {"s1_" \o turn, NoAnswers(turn)}
Stage2Results(turn) == {"s2_" \o turn}
Stage3Results(turn) == {"", "s3_" \o turn}
Titles == {"title"}

\* The message an exception carries, per raising call.
ExcUserMsg == "add_user_message failed"
ExcStage1 == "stage1 failed"
ExcStage2 == "stage2 failed"
ExcStage3 == "stage3 failed"
ExcTitle == "title failed"
ExcAsstMsg == "add_assistant_message failed"

\* A server event: its type and its payload (a sequence of strings).
Ev(t, d) == [type |-> t, data |-> d]
Types(events) == [i \in 1..Len(events) |-> events[i].type]

\* A stored message.  "by" is the turn that appended it.
UserMessage(turn, q) == [role |-> "user", content |-> q, by |-> turn]
\* (a variant that stores the stage 1 results as the stage 2 results)
AssistantMessageSwapped(turn, s1, s2, s3) == [role |-> "assistant", content |-> <<s1, s1, s3>>, by |-> turn]
AssistantMessage(turn, s1, s2, s3) == [role |-> "assistant", content |-> <<s1, s2, s3>>, by |-> turn]

\* The content of an HTTP request.
RequestContent == <<"q">>
\* The turn of an HTTP request: a request is one turn.
ReqTurn(r) == "r" \o ToString(r)

VARIABLES
    surface,    \* the delivery surface a behaviour exercises: http or voice
    conv,       \* the stored conversation: exists, user_id, messages, title
    task,       \* per owner, the title task: none, running, done, failed
    req,        \* per HTTP request: kind, pc, user, locals, log, status
    sess,       \* the VoiceChatSession: its fields, its position, its locals
    inbox,      \* client messages sent and not yet received by the session
    nSent,      \* client messages sent so far
    wsAlive,    \* the client's WebSocket connection is up
    vlog,       \* events sent and calls made while handling the current message
    orphans,    \* open sub-connections the session no longer references
    endpoint,   \* the voice endpoint's WebSocket: state, close code, reason, inputs
    council,    \* one turn inside the council stages: calls, answers, labels
    rt,         \* one RealtimeClient on its own: the client, the provider's script, the call made
    userdb      \* the users table, whether the application has started, the last admin request

voiceVars == <<sess, inbox, nSent, wsAlive, vlog, orphans, endpoint, council, rt, userdb>>
\* What an action of the HTTP surface and of the voice surface leaves alone.
voiceFrame == <<surface, sess, inbox, nSent, wsAlive, vlog, orphans, endpoint, council, rt, userdb>>
httpFrame == <<surface, req, endpoint, council, rt, userdb>>
vars == <<surface, conv, task, req, sess, inbox, nSent, wsAlive, vlog, orphans, endpoint, council, rt, userdb>>

\* ----------------------------------------------------------------- storage

\* storage.add_user_message / add_assistant_message: append to the messages.
Append1(c, m) == [c EXCEPT !.messages = Append(@, m)]
\* storage.update_conversation_title
SetTitle(c, t) == [c EXCEPT !.title = t]

AssistantBy(turn) == SelectSeq(conv.messages, LAMBDA m : m.role = "assistant" /\ m.by = turn)
UserBy(turn) == SelectSeq(conv.messages, LAMBDA m : m.role = "user" /\ m.by = turn)

\* --------------------------------------------------------- title task

\* asyncio.create_task(generate_conversation_title(...)) settles on its own.
TitleTaskSettle(o) ==
    /\ task[o] = "running"
    /\ \E r \in {"done", "failed"} : task' = [task EXCEPT ![o] = r]
    /\ UNCHANGED <<surface, conv, req, voiceVars>>

\* ------------------------------------------------------------ HTTP requests

NoReq == [kind |-> "none", pc |-> "none", user |-> ConvOwner, first |-> FALSE,
          s1 |-> "", s2 |-> "", s3 |-> "", log |-> <<>>, status |-> 0]

\* The events a request's generator has yielded, and the calls it made.
IsCall(e) == e.type \in {"call", "return", "raise", "spawn"}
Events(log) == SelectSeq(log, LAMBDA e : ~IsCall(e))
Calls(log) == SelectSeq(log, LAMBDA e : IsCall(e))

Call(f) == Ev("call", <<f>>)
Return(f) == Ev("return", <<f>>)
Raise(f) == Ev("raise", <<f>>)
Spawn(f) == Ev("spawn", <<f>>)

\* (a variant without the ownership check)
SendMessageStreamNoOwnerCheck(r, u) ==
    /\ surface = "http"
    /\ req[r].kind = "none"
    /\ IF ~conv.exists
       THEN req' = [req EXCEPT ![r] = [NoReq EXCEPT !.kind = "stream", !.user = u,
                                             !.pc = "done", !.status = 404]]
       ELSE req' = [req EXCEPT ![r] = [NoReq EXCEPT !.kind = "stream", !.user = u,
                                             !.pc = "created", !.status = 200,
                                             !.first = (Len(conv.messages) = 0)]]
    /\ UNCHANGED <<conv, task>>
    /\ UNCHANGED voiceFrame

\* main.py, send_message_stream: the endpoint body up to the StreamingResponse.
SendMessageStream(r, u) ==
    /\ surface = "http"
    /\ req[r].kind = "none"
    /\ IF ~conv.exists
       THEN req' = [req EXCEPT ![r] = [NoReq EXCEPT !.kind = "stream", !.user = u,
                                             !.pc = "done", !.status = 404]]
       ELSE IF conv.user_id # u
       THEN req' = [req EXCEPT ![r] = [NoReq EXCEPT !.kind = "stream", !.user = u,
                                             !.pc = "done", !.status = 403]]
       ELSE req' = [req EXCEPT ![r] = [NoReq EXCEPT !.kind = "stream", !.user = u,
                                             !.pc = "created", !.status = 200,
                                             !.first = (Len(conv.messages) = 0)]]
    /\ UNCHANGED <<conv, task>>
    /\ UNCHANGED voiceFrame

\* event_generator, from its start to the yield of stage1_start (or error).
GenStart(r) ==
    /\ req[r].kind = "stream" /\ req[r].pc = "created"
    /\ \E ok \in BOOLEAN :
         IF ok
         THEN /\ conv' = Append1(conv, UserMessage(ReqTurn(r), RequestContent))
              /\ task' = [task EXCEPT ![r] = IF req[r].first THEN "running" ELSE @]
              /\ req' = [req EXCEPT ![r].pc = "y_stage1_start",
                                    ![r].log = (IF req[r].first THEN Append(@, Spawn("title")) ELSE @)
                                               \o <<Ev("stage1_start", <<>>)>>]
         ELSE /\ req' = [req EXCEPT ![r].pc = "y_error",
                                    ![r].log = @ \o <<Raise("add_user_message"), Ev("error", <<ExcUserMsg>>)>>]
              /\ UNCHANGED <<conv, task>>
    /\ UNCHANGED voiceFrame

\* (a variant without the except clause: a raising stage ends the generator
\* with no error event)
GenStageNoExcept(r, at, fn, results, next, excmsg, field) ==
    /\ req[r].kind = "stream" /\ req[r].pc = at
    /\ \/ \E res \in results :
            req' = [req EXCEPT ![r].pc = "y_" \o next,
                               ![r][field] = res,
                               ![r].log = @ \o <<Call(fn), Return(fn), Ev(next, <<res>>)>>]
       \/ req' = [req EXCEPT ![r].pc = "done",
                             ![r].log = @ \o <<Call(fn), Raise(fn)>>]
    /\ UNCHANGED <<conv, task>>
    /\ UNCHANGED voiceFrame

\* One await of a stage function followed by the yield of its *_complete
\* event, or by the yield of error when the stage raised.
GenStage(r, at, fn, results, next, excmsg, field) ==
    /\ req[r].kind = "stream" /\ req[r].pc = at
    /\ \/ \E res \in results :
            req' = [req EXCEPT ![r].pc = "y_" \o next,
                               ![r][field] = res,
                               ![r].log = @ \o <<Call(fn), Return(fn), Ev(next, <<res>>)>>]
       \/ req' = [req EXCEPT ![r].pc = "y_error",
                             ![r].log = @ \o <<Call(fn), Raise(fn), Ev("error", <<excmsg>>)>>]
    /\ UNCHANGED <<conv, task>>
    /\ UNCHANGED voiceFrame

GenStage1(r) == GenStage(r, "y_stage1_start", "stage1", Stage1Results(ReqTurn(r)), "stage1_complete", ExcStage1, "s1")
GenStage2(r) == GenStage(r, "y_stage2_start", "stage2", Stage2Results(ReqTurn(r)), "stage2_complete", ExcStage2, "s2")
GenStage3(r) == GenStage(r, "y_stage3_start", "stage3", Stage3Results(ReqTurn(r)), "stage3_complete", ExcStage3, "s3")

\* From the yield of stage k's *_complete to the yield of stage k+1's *_start.
GenNextStart(r, at, next) ==
    /\ req[r].kind = "stream" /\ req[r].pc = at
    /\ req' = [req EXCEPT ![r].pc = "y_" \o next, ![r].log = Append(@, Ev(next, <<>>))]
    /\ UNCHANGED <<conv, task>>
    /\ UNCHANGED voiceFrame

GenStage2Start(r) == GenNextStart(r, "y_stage1_complete", "stage2_start")
\* (a variant that starts stage 3 as soon as stage 1 has completed)
GenStage3StartEarly(r) == GenNextStart(r, "y_stage1_complete", "stage3_start")
GenStage3Start(r) == GenNextStart(r, "y_stage2_complete", "stage3_start")

\* storage.add_assistant_message followed by the yield of complete.
GenSaveFrom(r, at) ==
    /\ req[r].kind = "stream" /\ req[r].pc = at
    /\ \E ok \in BOOLEAN :
         IF ok
         THEN /\ conv' = Append1(conv, AssistantMessage(ReqTurn(r), req[r].s1, req[r].s2, req[r].s3))
              /\ req' = [req EXCEPT ![r].pc = "y_complete",
                                    ![r].log = Append(@, Ev("complete", <<>>))]
         ELSE /\ req' = [req EXCEPT ![r].pc = "y_error",
                                    ![r].log = @ \o <<Raise("add_assistant_message"), Ev("error", <<ExcAsstMsg>>)>>]
              /\ UNCHANGED conv
    /\ UNCHANGED task
    /\ UNCHANGED voiceFrame

\* After stage3_complete: await the title task if there is one, else save.
GenTitle(r) ==
    /\ req[r].kind = "stream" /\ req[r].pc = "y_stage3_complete"
    /\ task[r] # "none"
    /\ \/ /\ task[r] = "done"
          /\ \E t \in Titles :
               /\ conv' = SetTitle(conv, t)
               /\ req' = [req EXCEPT ![r].pc = "y_title_complete",
                                     ![r].log = Append(@, Ev("title_complete", <<t>>))]
       \/ /\ task[r] = "failed"
          /\ req' = [req EXCEPT ![r].pc = "y_error",
                                ![r].log = @ \o <<Raise("title"), Ev("error", <<ExcTitle>>)>>]
          /\ UNCHANGED conv
    /\ UNCHANGED task
    /\ UNCHANGED voiceFrame

GenSaveNoTitle(r) == task[r] = "none" /\ GenSaveFrom(r, "y_stage3_complete")
GenSave(r) == GenSaveFrom(r, "y_title_complete")

\* After the terminal yield the generator returns.
GenFinish(r) ==
    /\ req[r].kind = "stream" /\ req[r].pc \in {"y_complete", "y_error"}
    /\ req' = [req EXCEPT ![r].pc = "done"]
    /\ UNCHANGED <<conv, task>>
    /\ UNCHANGED voiceFrame

\* The consumer stops iterating (the client went away): the generator is
\* closed at the yield where it is suspended.
GenAbandon(r) ==
    /\ req[r].kind = "stream"
    /\ req[r].pc \notin {"created", "done", "abandoned"}
    /\ req' = [req EXCEPT ![r].pc = "abandoned"]
    /\ UNCHANGED <<conv, task>>
    /\ UNCHANGED voiceFrame

\* main.py, send_message: from the checks to the first await.
SendMessage(r, u) ==
    /\ surface = "http"
    /\ req[r].kind = "none"
    /\ IF ~conv.exists
       THEN /\ req' = [req EXCEPT ![r] = [NoReq EXCEPT !.kind = "atomic", !.user = u,
                                                !.pc = "done", !.status = 404]]
            /\ UNCHANGED conv
       ELSE IF conv.user_id # u
       THEN /\ req' = [req EXCEPT ![r] = [NoReq EXCEPT !.kind = "atomic", !.user = u,
                                                !.pc = "done", !.status = 403]]
            /\ UNCHANGED conv
       ELSE \E ok \in BOOLEAN :
              IF ok
              THEN /\ conv' = Append1(conv, UserMessage(ReqTurn(r), RequestContent))
                   /\ req' = [req EXCEPT ![r] = [NoReq EXCEPT !.kind = "atomic", !.user = u,
                                  !.first = (Len(conv.messages) = 0),
                                  !.pc = IF Len(conv.messages) = 0 THEN "a_title" ELSE "a_council"]]
              ELSE /\ req' = [req EXCEPT ![r] = [NoReq EXCEPT !.kind = "atomic", !.user = u,
                                  !.pc = "done", !.status = 500,
                                  !.log = <<Raise("add_user_message")>>]]
                   /\ UNCHANGED conv
    /\ UNCHANGED task
    /\ UNCHANGED voiceFrame

\* send_message: title = await generate_conversation_title(...), inline.
AtomicTitle(r) ==
    /\ req[r].kind = "atomic" /\ req[r].pc = "a_title"
    /\ \/ \E t \in Titles :
            /\ conv' = SetTitle(conv, t)
            /\ req' = [req EXCEPT ![r].pc = "a_council",
                                  ![r].log = @ \o <<Call("title"), Return("title")>>]
       \/ /\ req' = [req EXCEPT ![r].pc = "done", ![r].status = 500,
                                ![r].log = @ \o <<Call("title"), Raise("title")>>]
          /\ UNCHANGED conv
    /\ UNCHANGED task
    /\ UNCHANGED voiceFrame

\* council.run_full_council: the three stages in sequence; an exception of a
\* stage propagates.
RunFullCouncil(turn) ==
    {[ok |-> TRUE, s1 |-> a, s2 |-> b, s3 |-> c,
      calls |-> <<Call("stage1"), Return("stage1"), Call("stage2"), Return("stage2"),
                  Call("stage3"), Return("stage3")>>] :
        a \in Stage1Results(turn), b \in Stage2Results(turn), c \in Stage3Results(turn)}
    \cup {[ok |-> FALSE, s1 |-> "", s2 |-> "", s3 |-> "",
           calls |-> <<Call("stage1"), Raise("stage1")>>]}
    \cup {[ok |-> FALSE, s1 |-> a, s2 |-> "", s3 |-> "",
           calls |-> <<Call("stage1"), Return("stage1"), Call("stage2"), Raise("stage2")>>] :
        a \in Stage1Results(turn)}
    \cup {[ok |-> FALSE, s1 |-> a, s2 |-> b, s3 |-> "",
           calls |-> <<Call("stage1"), Return("stage1"), Call("stage2"), Return("stage2"),
                       Call("stage3"), Raise("stage3")>>] :
        a \in Stage1Results(turn), b \in Stage2Results(turn)}

\* send_message: run the council, append the assistant message, respond.
AtomicCouncil(r) ==
    /\ req[r].kind = "atomic" /\ req[r].pc = "a_council"
    /\ \E c \in RunFullCouncil(ReqTurn(r)) :
         IF c.ok
         THEN \E ok \in BOOLEAN :
                IF ok
                THEN /\ conv' = Append1(conv, AssistantMessage(ReqTurn(r), c.s1, c.s2, c.s3))
                     /\ req' = [req EXCEPT ![r].pc = "done", ![r].status = 200,
                                           ![r].s1 = c.s1, ![r].s2 = c.s2, ![r].s3 = c.s3,
                                           ![r].log = @ \o c.calls]
                ELSE /\ req' = [req EXCEPT ![r].pc = "done", ![r].status = 500,
                                           ![r].s1 = c.s1, ![r].s2 = c.s2, ![r].s3 = c.s3,
                                           ![r].log = @ \o c.calls \o <<Raise("add_assistant_message")>>]
                     /\ UNCHANGED conv
         ELSE /\ req' = [req EXCEPT ![r].pc = "done", ![r].status = 500,
                                    ![r].s1 = c.s1, ![r].s2 = c.s2, ![r].s3 = c.s3,
                                    ![r].log = @ \o c.calls]
              /\ UNCHANGED conv
    /\ UNCHANGED task
    /\ UNCHANGED voiceFrame

HttpStep(r) ==
    \/ \E u \in Users : SendMessageStream(r, u)
    \/ GenStart(r)
    \/ GenStage1(r)
    \/ GenStage2Start(r)
    \/ GenStage2(r)
    \/ GenStage3Start(r)
    \/ GenStage3(r)
    \/ GenTitle(r)
    \/ GenSaveNoTitle(r)
    \/ GenSave(r)
    \/ GenFinish(r)
    \/ GenAbandon(r)
    \/ \E u \in Users : SendMessage(r, u)
    \/ AtomicTitle(r)
    \/ AtomicCouncil(r)

\* ------------------------------------------------------- RealtimeClient

\* self.realtime_client = None
NoClient == [obj |-> FALSE, connected |-> FALSE, ws |-> "none", sent |-> <<>>]
\* RealtimeClient.__init__
NewClient == [obj |-> TRUE, connected |-> FALSE, ws |-> "none", sent |-> <<>>]

\* `not self._connected or not self.ws` is false.
Usable(c) == c.connected /\ c.ws # "none"

\* RealtimeClient.connect: websockets.connect raises (refused), or the
\* connection opens and _configure_session raises (config_failed), or both
\* succeed.
ConnectOutcomes == {"refused", "config_failed", "connected"}
Connect(c, how) ==
    CASE how = "refused" -> [client |-> c, ok |-> FALSE]
      [] how = "config_failed" ->
            [client |-> [c EXCEPT !.ws = "open", !.connected = TRUE], ok |-> FALSE]
      [] OTHER ->
            [client |-> [c EXCEPT !.ws = "open", !.connected = TRUE,
                                  !.sent = <<"session.update">>], ok |-> TRUE]

\* RealtimeClient.close
Close(c) == [c EXCEPT !.connected = FALSE, !.ws = "none"]

\* RealtimeClient.send_audio / commit_audio: nothing on an unusable client;
\* otherwise ws.send, which raises when the provider connection is gone.
WsSend(c, items) ==
    IF ~Usable(c)
    THEN {[client |-> c, raised |-> FALSE]}
    ELSE {[client |-> [c EXCEPT !.sent = @ \o items], raised |-> FALSE],
          [client |-> c, raised |-> TRUE]}
SendAudio(c, chunk) == WsSend(c, <<chunk>>)
CommitAudio(c) == WsSend(c, <<"input_audio_buffer.commit", "response.create">>)

\* Texts the provider can carry: empty, whitespace only, and speech.
Texts == {<<>>, <<" ", " ">>, <<" ", "h">>}

\* Provider events, by what receive_messages distinguishes.
ProviderEvents ==
    {Ev("completed", t) : t \in Texts} \cup {Ev("text_done", t) : t \in Texts}
    \cup {Ev("response_done", <<>>), Ev("error", <<>>), Ev("other", <<>>)}

RECURSIVE SeqsUpTo(_, _)
SeqsUpTo(S, n) ==
    IF n = 0 THEN {<<>>}
    ELSE LET shorter == SeqsUpTo(S, n - 1)
         IN shorter \cup {Append(q, x) : q \in shorter, x \in S}

\* What the provider sends after the commit, and how the stream ends when no
\* event made receive_messages return: the iteration ends, ConnectionClosed
\* is raised, another exception is raised, or the provider stays silent with
\* its connection open.
Scripts ==
    {[events |-> es, end |-> e] :
        es \in SeqsUpTo(ProviderEvents, MaxProviderEvents),
        e \in {"end", "closed", "exception", "silent"}}

\* (a variant where an error event returns the fallback text)
RECURSIVE ReceiveLoopErrorKeepsFallback(_, _)
ReceiveLoopErrorKeepsFallback(events, transcription) ==
    IF events = <<>>
    THEN [returned |-> FALSE, some |-> FALSE, text |-> transcription]
    ELSE LET e == Head(events)
         IN CASE e.type = "completed" ->
                    [returned |-> TRUE, some |-> TRUE, text |-> e.data]
              [] e.type = "text_done" ->
                    ReceiveLoopErrorKeepsFallback(Tail(events),
                                IF e.data # <<>> /\ transcription = <<>>
                                THEN e.data ELSE transcription)
              [] e.type = "response_done" ->
                    IF transcription # <<>>
                    THEN [returned |-> TRUE, some |-> TRUE, text |-> transcription]
                    ELSE ReceiveLoopErrorKeepsFallback(Tail(events), transcription)
              [] e.type = "error" ->
                    [returned |-> TRUE, some |-> transcription # <<>>, text |-> transcription]
              [] OTHER -> ReceiveLoopErrorKeepsFallback(Tail(events), transcription)

\* The body of the `async for` of receive_messages.
RECURSIVE ReceiveLoop(_, _)
ReceiveLoop(events, transcription) ==
    IF events = <<>>
    THEN [returned |-> FALSE, some |-> FALSE, text |-> transcription]
    ELSE LET e == Head(events)
         IN CASE e.type = "completed" ->
                    [returned |-> TRUE, some |-> TRUE, text |-> e.data]
              [] e.type = "text_done" ->
                    ReceiveLoop(Tail(events),
                                IF e.data # <<>> /\ transcription = <<>>
                                THEN e.data ELSE transcription)
              [] e.type = "response_done" ->
                    IF transcription # <<>>
                    THEN [returned |-> TRUE, some |-> TRUE, text |-> transcription]
                    ELSE ReceiveLoop(Tail(events), transcription)
              [] e.type = "error" ->
                    [returned |-> TRUE, some |-> FALSE, text |-> <<>>]
              [] OTHER -> ReceiveLoop(Tail(events), transcription)

\* A transcription: None, or a text.
None == [some |-> FALSE, text |-> <<>>]

\* RealtimeClient.receive_messages: the client afterwards and the result;
\* "hangs" when the `async for` waits for a message that never comes.
ReceiveMessages(c, script) ==
    IF ~Usable(c)
    THEN [client |-> c, some |-> FALSE, text |-> <<>>, hangs |-> FALSE]
    ELSE LET r == ReceiveLoop(script.events, <<>>)
         IN IF r.returned
            THEN [client |-> c, some |-> r.some, text |-> r.text, hangs |-> FALSE]
            ELSE IF script.end = "silent"
            THEN [client |-> c, some |-> FALSE, text |-> <<>>, hangs |-> TRUE]
            ELSE [client |-> IF script.end = "closed"
                             THEN [c EXCEPT !.connected = FALSE] ELSE c,
                  some |-> r.text # <<>>, text |-> r.text, hangs |-> FALSE]

\* str.strip()
IsSpace(ch) == ch = " "
RECURSIVE LStrip(_)
LStrip(s) == IF s # <<>> /\ IsSpace(Head(s)) THEN LStrip(Tail(s)) ELSE s
RECURSIVE RStrip(_)
RStrip(s) == IF s # <<>> /\ IsSpace(s[Len(s)]) THEN RStrip(SubSeq(s, 1, Len(s) - 1)) ELSE s
Strip(s) == RStrip(LStrip(s))

\* (a variant without the strip)
NoSpeechNoStrip(t) == ~t.some \/ t.text = <<>>
\* `not transcription or not transcription.strip()`
NoSpeech(t) == ~t.some \/ t.text = <<>> \/ Strip(t.text) = <<>>

\* One RealtimeClient taken on its own: a client in one of the states the
\* class can be in, the script the provider follows, and one call of
\* receive_messages, send_audio or commit_audio.
NoRt == [before |-> NoClient, client |-> NoClient, script |-> [events |-> <<>>, end |-> "end"],
         op |-> "none", some |-> FALSE, text |-> <<>>, hangs |-> FALSE, raised |-> FALSE]
RtClients ==
    {NewClient, Close(Connect(NewClient, "connected").client)}
    \cup {Connect(NewClient, how).client : how \in ConnectOutcomes}
InitRealtime ==
    /\ surface = "realtime"
    /\ rt \in {[NoRt EXCEPT !.before = c, !.client = c, !.script = sc] :
                  c \in RtClients, sc \in Scripts}

RtReceiveMessages ==
    /\ surface = "realtime" /\ rt.op = "none"
    /\ LET t == ReceiveMessages(rt.client, rt.script)
       IN rt' = [rt EXCEPT !.op = "receive_messages", !.client = t.client,
                           !.some = t.some, !.text = t.text, !.hangs = t.hangs]
    /\ UNCHANGED <<surface, conv, task, req, sess, inbox, nSent, wsAlive, vlog, orphans,
                   endpoint, council, userdb>>

RtSendAudio(chunk) ==
    /\ surface = "realtime" /\ rt.op = "none"
    /\ \E o \in SendAudio(rt.client, chunk) :
         rt' = [rt EXCEPT !.op = "send_audio", !.client = o.client, !.raised = o.raised]
    /\ UNCHANGED <<surface, conv, task, req, sess, inbox, nSent, wsAlive, vlog, orphans,
                   endpoint, council, userdb>>

RtCommitAudio ==
    /\ surface = "realtime" /\ rt.op = "none"
    /\ \E o \in CommitAudio(rt.client) :
         rt' = [rt EXCEPT !.op = "commit_audio", !.client = o.client, !.raised = o.raised]
    /\ UNCHANGED <<surface, conv, task, req, sess, inbox, nSent, wsAlive, vlog, orphans,
                   endpoint, council, userdb>>

RealtimeStep ==
    \/ RtReceiveMessages
    \/ \E chunk \in {"a", "b"} : RtSendAudio(chunk)
    \/ RtCommitAudio

\* ------------------------------------------------------------ users

\* config.ADMIN_EMAIL, and the other e-mail addresses of the requests.
AdminEmail == "admin@example.com"
Emails == {AdminEmail, "u1@example.com", "u2@example.com"}
\* The "sub" of the bearer token of a request: 0 for a token that does not
\* verify, else the id of a user that logged in (the token outlives the
\* user's row).
NoSub == 0
NoResponse == [op |-> "none", sub |-> NoSub, target |-> NoSub, status |-> 0, before |-> {}]
NoUserDb == [started |-> FALSE, users |-> {}, next |-> 1, last |-> NoResponse]

\* users.create_user: the table after the INSERT; the id is fresh.
CreateUser(db, email, is_admin) ==
    [db EXCEPT !.users = @ \cup {[id |-> db.next, email |-> email, is_admin |-> is_admin]},
               !.next = @ + 1]
EmailTaken(db, email) == \E u \in db.users : u.email = email
\* users.get_user_by_id
GetUserById(db, id) == {u \in db.users : u.id = id}
\* users.delete_user: DELETE FROM users WHERE id = ?
DeleteUser(db, id) == [db EXCEPT !.users = {u \in @ : u.id # id}]

\* get_current_user, get_current_admin: 401 for a token that does not verify
\* or whose user is not in the table, 403 for a user that is not an admin.
GetCurrentAdmin(db, sub) ==
    IF sub = NoSub \/ GetUserById(db, sub) = {} THEN 401
    ELSE IF \E u \in GetUserById(db, sub) : ~u.is_admin THEN 403
    ELSE 200

\* startup_event: the default admin is created when the table is empty.
Startup ==
    /\ surface = "users" /\ ~userdb.started
    /\ userdb' = [(IF userdb.users = {} THEN CreateUser(userdb, AdminEmail, TRUE) ELSE userdb)
                     EXCEPT !.started = TRUE, !.last = NoResponse]
    /\ UNCHANGED <<surface, conv, task, req, sess, inbox, nSent, wsAlive, vlog, orphans,
                   endpoint, council, rt>>

\* The process stops; the table stays on disk.
Shutdown ==
    /\ surface = "users" /\ userdb.started
    /\ userdb' = [userdb EXCEPT !.started = FALSE, !.last = NoResponse]
    /\ UNCHANGED <<surface, conv, task, req, sess, inbox, nSent, wsAlive, vlog, orphans,
                   endpoint, council, rt>>

\* The response recorded with the table the request found.
Responded(db, op, sub, target, status) ==
    [db EXCEPT !.last = [op |-> op, sub |-> sub, target |-> target, status |-> status,
                         before |-> userdb.users]]

\* POST /api/admin/users.  The dependency and the handler are coroutines
\* that never suspend (the table is read and written by blocking calls), so
\* a request is one step of the event loop.
AdminCreateUser(sub, email, is_admin) ==
    /\ surface = "users" /\ userdb.started
    /\ sub < userdb.next
    /\ LET auth == GetCurrentAdmin(userdb, sub)
       IN IF auth # 200
          THEN userdb' = Responded(userdb, "create", sub, NoSub, auth)
          ELSE IF EmailTaken(userdb, email)
          THEN userdb' = Responded(userdb, "create", sub, NoSub, 400)
          ELSE /\ userdb.next <= MaxUsers + 1
               /\ userdb' = Responded(CreateUser(userdb, email, is_admin), "create", sub,
                                      userdb.next, 200)
    /\ UNCHANGED <<surface, conv, task, req, sess, inbox, nSent, wsAlive, vlog, orphans,
                   endpoint, council, rt>>

\* (a variant without the check that the target is not the requester)
AdminDeleteUserNoSelfCheck(sub, target) ==
    /\ surface = "users" /\ userdb.started
    /\ sub < userdb.next
    /\ LET auth == GetCurrentAdmin(userdb, sub)
       IN IF auth # 200
          THEN userdb' = Responded(userdb, "delete", sub, target, auth)
          ELSE IF GetUserById(userdb, target) = {}
          THEN userdb' = Responded(userdb, "delete", sub, target, 404)
          ELSE userdb' = Responded(DeleteUser(userdb, target), "delete", sub, target, 200)
    /\ UNCHANGED <<surface, conv, task, req, sess, inbox, nSent, wsAlive, vlog, orphans,
                   endpoint, council, rt>>

\* DELETE /api/admin/users/{user_id}, one step of the event loop as well.
AdminDeleteUser(sub, target) ==
    /\ surface = "users" /\ userdb.started
    /\ sub < userdb.next
    /\ LET auth == GetCurrentAdmin(userdb, sub)
       IN IF auth # 200
          THEN userdb' = Responded(userdb, "delete", sub, target, auth)
          ELSE IF target = sub
          THEN userdb' = Responded(userdb, "delete", sub, target, 400)
          ELSE IF GetUserById(userdb, target) = {}
          THEN userdb' = Responded(userdb, "delete", sub, target, 404)
          ELSE userdb' = Responded(DeleteUser(userdb, target), "delete", sub, target, 200)
    /\ UNCHANGED <<surface, conv, task, req, sess, inbox, nSent, wsAlive, vlog, orphans,
                   endpoint, council, rt>>

\* The ids of the users ever created; a request carries a token that does
\* not verify or the token of a user created so far.
UserIds == 1..(MaxUsers + 1)
UsersStep ==
    \/ Startup
    \/ Shutdown
    \/ \E sub \in {NoSub} \cup UserIds, email \in Emails, is_admin \in BOOLEAN :
          AdminCreateUser(sub, email, is_admin)
    \/ \E sub \in {NoSub} \cup UserIds, target \in UserIds :
          AdminDeleteUser(sub, target)

\* ------------------------------------------------------- council stages

\* The configured list of council models, in configured order.
ConfiguredModels(n) == [i \in 1..n |-> "m" \o ToString(i)]

InitCouncil(n) ==
    [phase |-> "idle", n |-> n, status |-> [i \in 1..n |-> "idle"], settled |-> <<>>,
     answers |-> <<>>, label_to_model |-> <<>>, prompts |-> <<>>,
     rankings |-> [i \in 1..n |-> "idle"], aggregate_over |-> <<>>,
     aggregate |-> <<>>]
councilFrame == <<surface, conv, task, req, sess, inbox, nSent, wsAlive, vlog, orphans, endpoint, rt, userdb>>

\* Stage 1: one call per configured model, all issued concurrently.
Stage1FanOut ==
    /\ surface = "council" /\ council.phase = "idle"
    /\ council' = [council EXCEPT !.phase = "stage1",
                                  !.status = [i \in 1..council.n |-> "pending"]]
    /\ UNCHANGED councilFrame

\* A call of stage 1 settles, with an answer or with a failure.
Stage1Settle(i, out) ==
    /\ council.phase = "stage1" /\ council.status[i] = "pending"
    /\ council' = [council EXCEPT !.status[i] = out, !.settled = Append(@, i)]
    /\ UNCHANGED councilFrame

\* The answers of stage 1, one entry per model.
ModelAnswer(c, i) ==
    [model |-> ConfiguredModels(c.n)[i],
     kind |-> IF c.status[i] = "ok" THEN "answer" ELSE "failure"]
\* (a variant that returns the entries in completion order)
Stage1GatherAsCompleted ==
    /\ council.phase = "stage1"
    /\ \A i \in 1..council.n : council.status[i] # "pending"
    /\ council' = [council EXCEPT
          !.phase = "stage1_done",
          !.answers = [k \in 1..council.n |-> ModelAnswer(council, council.settled[k])]]
    /\ UNCHANGED councilFrame

\* Stage 1 completes once every call has settled and returns the entries in
\* configured order.
Stage1Gather ==
    /\ council.phase = "stage1"
    /\ \A i \in 1..council.n : council.status[i] # "pending"
    /\ council' = [council EXCEPT
          !.phase = "stage1_done",
          !.answers = [i \in 1..council.n |-> ModelAnswer(council, i)]]
    /\ UNCHANGED councilFrame

\* The models of the successful answers, in the order of the answers.
RECURSIVE SuccessfulModels(_)
SuccessfulModels(answers) ==
    IF answers = <<>> THEN <<>>
    ELSE (IF Head(answers).kind = "answer" THEN <<Head(answers).model>> ELSE <<>>)
         \o SuccessfulModels(Tail(answers))
AllModels(answers) == [i \in 1..Len(answers) |-> answers[i].model]

\* Stage 2, steps A and B with `labelled` the models that get a label: label
\* k stands for the k-th of them; every council model is asked to rank the
\* labelled answers.  With no successful answer the turn is aborted.
Stage2FanOut(labelled) ==
    /\ council.phase = "stage1_done"
    /\ IF SuccessfulModels(council.answers) = <<>>
       THEN council' = [council EXCEPT !.phase = "aborted", !.settled = <<>>]
       ELSE council' = [council EXCEPT
               !.phase = "stage2", !.settled = <<>>,
               !.label_to_model = labelled,
               !.prompts = [i \in 1..council.n |-> labelled],
               !.rankings = [i \in 1..council.n |-> "pending"]]
    /\ UNCHANGED councilFrame
\* (a variant that labels every answer, failed or not)
Stage2AnonymizeAll == Stage2FanOut(AllModels(council.answers))
Stage2Anonymize == Stage2FanOut(SuccessfulModels(council.answers))

\* A ranking call settles: with a valid ordering (best first or reversed),
\* with a reply that names a label outside the label set, that omits a
\* label, or that cannot be parsed, or with a failure of the call.
RankingOutcomes ==
    {"best_first", "reversed", "unknown_label", "omits_label", "unparsable", "failed"}
Stage2Settle(i, out) ==
    /\ council.phase = "stage2" /\ council.rankings[i] = "pending"
    /\ council' = [council EXCEPT !.rankings[i] = out]
    /\ UNCHANGED councilFrame

\* Step C: the ordering parsed from a reply over k labels, best first; label
\* l is the l-th entry of the label map.
ParsedRanking(out, k) ==
    CASE out = "best_first" -> [p \in 1..k |-> p]
      [] out = "reversed" -> [p \in 1..k |-> k + 1 - p]
      [] out = "unknown_label" -> [p \in 1..k |-> IF p = k THEN k + 1 ELSE p]
      [] out = "omits_label" -> [p \in 1..(k - 1) |-> p]
      [] OTHER -> <<>>

\* The ranking submissions of a turn, in the order of the raters; a rater
\* whose call failed has none.
RECURSIVE SubmissionsFrom(_, _, _)
SubmissionsFrom(rankings, i, k) ==
    IF i > Len(rankings) THEN <<>>
    ELSE (IF rankings[i] = "failed" THEN <<>>
          ELSE <<[rater |-> i, parsed_ranking |-> ParsedRanking(rankings[i], k)]>>)
         \o SubmissionsFrom(rankings, i + 1, k)
Submissions(c) == SubmissionsFrom(c.rankings, 1, Len(c.label_to_model))

\* (a variant that accepts an ordering that omits labels)
ValidRankingLenient(parsed, k) ==
    /\ \A p \in 1..Len(parsed) : parsed[p] \in 1..k
    /\ \A p, q \in 1..Len(parsed) : parsed[p] = parsed[q] => p = q
\* Step C: an ordering is valid when it is a total order of the label set.
ValidRanking(parsed, k) ==
    /\ Len(parsed) = k
    /\ {parsed[p] : p \in 1..Len(parsed)} = 1..k

\* Step D: the points of label l in one ordering, count_of_labels - position.
Points(parsed, k, l) ==
    IF \E p \in 1..Len(parsed) : parsed[p] = l
    THEN k - (CHOOSE p \in 1..Len(parsed) : parsed[p] = l)
    ELSE 0

\* Step D: the points of every label summed over the valid submissions,
\* one submission after the other.
RECURSIVE Tally(_, _)
Tally(subs, k) ==
    IF subs = <<>> THEN [l \in 1..k |-> 0]
    ELSE LET rest == Tally(Tail(subs), k)
             parsed == Head(subs).parsed_ranking
         IN IF ValidRanking(parsed, k)
            THEN [l \in 1..k |-> rest[l] + Points(parsed, k, l)]
            ELSE rest

\* Step D: the labels by total descending, ties in the order of the stage-1
\* models, each with its model and its total.
Ranked(tally, label_to_model) ==
    LET k == Len(label_to_model)
        Rank(l) == 1 + Cardinality({m \in 1..k :
                        \/ tally[m] > tally[l]
                        \/ tally[m] = tally[l] /\ m < l})
    IN [r \in 1..k |->
          LET l == CHOOSE l \in 1..k : Rank(l) = r
          IN [model |-> label_to_model[l], score |-> tally[l]]]

\* (a variant that ranks by the first submission alone)
AggregateFirstOnly(subs, label_to_model) ==
    Ranked(Tally(IF subs = <<>> THEN <<>> ELSE <<Head(subs)>>, Len(label_to_model)),
           label_to_model)
\* calculate_aggregate_rankings(stage2_results, label_to_model)
CalculateAggregateRankings(subs, label_to_model) ==
    Ranked(Tally(subs, Len(label_to_model)), label_to_model)

\* The stage-2 step of a turn ends with the aggregate of its submissions.
Stage2Aggregate ==
    /\ council.phase = "stage2"
    /\ \A i \in 1..council.n : council.rankings[i] # "pending"
    /\ council' = [council EXCEPT
          !.phase = "stage2_done",
          !.aggregate_over = council.label_to_model,
          !.aggregate = CalculateAggregateRankings(Submissions(council),
                                                   council.label_to_model)]
    /\ UNCHANGED councilFrame

CouncilStep ==
    \/ Stage1FanOut
    \/ \E i \in 1..council.n, out \in {"ok", "failed"} : Stage1Settle(i, out)
    \/ Stage1Gather
    \/ Stage2Anonymize
    \/ \E i \in 1..council.n, out \in RankingOutcomes : Stage2Settle(i, out)
    \/ Stage2Aggregate

\* ------------------------------------------------- voice_chat_endpoint

\* The token of the query string: absent, not verifiable (bad signature or
\* expired), or a valid token whose "sub" is a user or a user that no longer
\* exists.
Tokens == {"none", "invalid", "alice", "bob", "ghost"}
\* auth.verify_token: the payload's "sub", or no payload.
NoPayload == "no payload"
VerifyToken(tok) == IF tok = "invalid" THEN NoPayload ELSE tok
\* users.get_user_by_id(...) is not None
UserExists(sub) == sub \in Users

Refuse(code, reason) == [accept |-> FALSE, code |-> code, reason |-> reason]
\* (a variant without the ownership check)
SetupNoOwnerCheck(tok, key, c) ==
    IF tok = "none" THEN Refuse(4001, "Authentication required")
    ELSE IF VerifyToken(tok) = NoPayload THEN Refuse(4001, "Invalid token")
    ELSE IF ~UserExists(VerifyToken(tok)) THEN Refuse(4001, "User not found")
    ELSE IF ~key THEN Refuse(4001, "OpenAI API key not configured")
    ELSE IF ~c.exists THEN Refuse(4004, "Conversation not found")
    ELSE [accept |-> TRUE, code |-> 0, reason |-> ""]
\* voice_chat_endpoint, the checks before websocket.accept(): the first
\* failing check closes the connection with its code and reason.
Setup(tok, key, c) ==
    IF tok = "none" THEN Refuse(4001, "Authentication required")
    ELSE IF VerifyToken(tok) = NoPayload THEN Refuse(4001, "Invalid token")
    ELSE IF ~UserExists(VerifyToken(tok)) THEN Refuse(4001, "User not found")
    ELSE IF ~key THEN Refuse(4001, "OpenAI API key not configured")
    ELSE IF ~c.exists THEN Refuse(4004, "Conversation not found")
    ELSE IF c.user_id # VerifyToken(tok) THEN Refuse(4003, "Access denied")
    ELSE [accept |-> TRUE, code |-> 0, reason |-> ""]

InitEndpoint == [state |-> "connecting", code |-> 0, reason |-> "", token |-> "none", key |-> FALSE]

\* voice_chat_endpoint up to session.run(): close without accepting, or
\* accept and create the session.
VoiceChatEndpoint(tok, key) ==
    /\ surface = "voice" /\ endpoint.state = "connecting"
    /\ LET r == Setup(tok, key, conv)
       IN endpoint' = [state |-> IF r.accept THEN "accepted" ELSE "refused",
                       code |-> r.code, reason |-> r.reason, token |-> tok, key |-> key]
    /\ UNCHANGED <<surface, conv, task, req, sess, inbox, nSent, wsAlive, vlog, orphans, council, rt, userdb>>

\* ----------------------------------------------------- VoiceChatSession

MsgNoRecording == "No recording session active"
MsgConnectFailed == "Failed to connect to transcription service"
MsgNoSpeech == "No speech detected"
MsgNoConversation == "Conversation not found"
ExcSend == "websocket send failed"
ExcReceive == "websocket receive failed"
ExcDecode == "Incorrect padding"
ExcProvider == "provider connection closed"
ExcTts == "TTS API error"

\* VoiceChatSession.__init__, and the locals of one turn.  "last" is the type
\* of the message being handled (or handled last), "wasRecording" the value
\* of _is_recording when it was received, "turn" counts the stop_recording
\* messages received.
InitSess ==
    [pc |-> "recv", audio_chunks |-> <<>>, realtime_client |-> NoClient,
     is_recording |-> FALSE, exc |-> "", last |-> "", wasRecording |-> FALSE,
     turn |-> 0, first |-> FALSE, gone |-> FALSE, transcription |-> None, user_query |-> <<>>, s1 |-> "", s2 |-> "", s3 |-> "", chunks |-> 0,
     closedBy |-> ""]

VoiceTurn(s) == "v" \o ToString(s.turn)

\* Client messages: the type, and for audio the base64 payload (empty,
\* undecodable, or one of two chunks).
Msg(t, d) == [type |-> t, data |-> d]
ClientMessages ==
    {Msg("start_recording", ""), Msg("stop_recording", ""), Msg("close", ""),
     Msg("other", "")}
    \cup {Msg("audio", d) : d \in {"", "bad", "a", "b"}}

\* The client sends a message; it waits in the receive queue.
ClientSend(m) ==
    /\ surface = "voice" /\ endpoint.state = "accepted"
    /\ sess.pc # "closed" /\ wsAlive
    /\ nSent < MaxSent /\ Len(inbox) < MaxInbox
    /\ inbox' = Append(inbox, m)
    /\ nSent' = nSent + 1
    /\ UNCHANGED <<conv, task, sess, wsAlive, vlog, orphans>>
    /\ UNCHANGED httpFrame

\* The client goes away: from now on receive_json and send_json raise.
ClientDisconnect ==
    /\ surface = "voice" /\ endpoint.state = "accepted"
    /\ sess.pc # "closed" /\ wsAlive
    /\ wsAlive' = FALSE
    /\ inbox' = <<>>
    /\ UNCHANGED <<conv, task, sess, nSent, vlog, orphans>>
    /\ UNCHANGED httpFrame

\* send_event in a handler: the session `s` continues at `next` with the
\* event appended, or the send raises and control goes to `onfail`.
SendThen(s, base, ev, next, onfail) ==
    IF wsAlive
    THEN /\ sess' = [s EXCEPT !.pc = next]
         /\ vlog' = Append(base, ev)
    ELSE /\ sess' = [s EXCEPT !.pc = onfail, !.exc = ExcSend]
         /\ vlog' = Append(base, Raise("send_event"))

\* (a variant that takes the next message whatever the session is doing)
ReceivesAnytime(t) ==
    /\ sess.pc # "closed" /\ wsAlive
    /\ inbox # <<>> /\ Head(inbox).type = t
    /\ inbox' = Tail(inbox)

\* run: receive_json returns the next message of type t.
Receives(t) ==
    /\ sess.pc = "recv" /\ wsAlive
    /\ inbox # <<>> /\ Head(inbox).type = t
    /\ inbox' = Tail(inbox)

\* run: receive_json raises because the client went away.
RecvDisconnected ==
    /\ sess.pc = "recv" /\ ~wsAlive
    /\ sess' = [sess EXCEPT !.pc = "run_except", !.exc = ExcReceive, !.last = "disconnect"]
    /\ vlog' = <<Raise("receive_json")>>
    /\ UNCHANGED <<conv, task, inbox, nSent, wsAlive, orphans>>
    /\ UNCHANGED httpFrame

\* handle_message, start_recording: _start_recording.
RecvStartRecording ==
    /\ Receives("start_recording")
    /\ \E how \in ConnectOutcomes :
         LET r == Connect(NewClient, how)
             s == [sess EXCEPT !.audio_chunks = <<>>, !.is_recording = TRUE,
                               !.realtime_client = r.client, !.last = "start_recording",
                               !.wasRecording = sess.is_recording]
         IN IF r.ok
            THEN SendThen(s, <<Call("connect"), Return("connect")>>,
                          Ev("recording_started", <<>>), "recv", "run_except")
            ELSE SendThen(s, <<Call("connect"), Raise("connect")>>,
                          Ev("error", <<MsgConnectFailed>>), "recv", "run_except")
    /\ orphans' = IF sess.realtime_client.ws = "open" THEN orphans + 1 ELSE orphans
    /\ UNCHANGED <<conv, task, nSent, wsAlive>>
    /\ UNCHANGED httpFrame

\* (a variant that forwards a chunk without buffering it)
RecvAudioNoBuffer ==
    /\ Receives("audio")
    /\ LET d == Head(inbox).data
           s == [sess EXCEPT !.last = "audio", !.wasRecording = sess.is_recording]
       IN IF d = ""
          THEN sess' = s /\ vlog' = <<>>
          ELSE IF d = "bad"
          THEN /\ sess' = [s EXCEPT !.pc = "run_except", !.exc = ExcDecode]
               /\ vlog' = <<Raise("b64decode")>>
          ELSE IF ~s.realtime_client.obj
               THEN sess' = [s EXCEPT !.audio_chunks = Append(@, d)] /\ vlog' = <<>>
               ELSE \E o \in SendAudio(s.realtime_client, d) :
                      IF o.raised
                      THEN /\ sess' = [s EXCEPT !.pc = "run_except", !.exc = ExcProvider]
                           /\ vlog' = <<Call("send_audio"), Raise("send_audio")>>
                      ELSE /\ sess' = [s EXCEPT !.realtime_client = o.client]
                           /\ vlog' = <<Call("send_audio"), Return("send_audio")>>
    /\ UNCHANGED <<conv, task, nSent, wsAlive, orphans>>
    /\ UNCHANGED httpFrame

\* handle_message, audio: decode, buffer, forward.
RecvAudio ==
    /\ Receives("audio")
    /\ LET d == Head(inbox).data
           s == [sess EXCEPT !.last = "audio", !.wasRecording = sess.is_recording]
       IN IF d = ""
          THEN sess' = s /\ vlog' = <<>>
          ELSE IF d = "bad"
          THEN /\ sess' = [s EXCEPT !.pc = "run_except", !.exc = ExcDecode]
               /\ vlog' = <<Raise("b64decode")>>
          ELSE LET b == [s EXCEPT !.audio_chunks = Append(@, d)]
               IN IF ~b.realtime_client.obj
                  THEN sess' = b /\ vlog' = <<>>
                  ELSE \E o \in SendAudio(b.realtime_client, d) :
                         IF o.raised
                         THEN /\ sess' = [b EXCEPT !.pc = "run_except", !.exc = ExcProvider]
                              /\ vlog' = <<Call("send_audio"), Raise("send_audio")>>
                         ELSE /\ sess' = [b EXCEPT !.realtime_client = o.client]
                              /\ vlog' = <<Call("send_audio"), Return("send_audio")>>
    /\ UNCHANGED <<conv, task, nSent, wsAlive, orphans>>
    /\ UNCHANGED httpFrame

\* (a variant without the check for a client)
RecvStopRecordingNoCheck ==
    /\ Receives("stop_recording")
    /\ sess' = [sess EXCEPT !.is_recording = FALSE, !.last = "stop_recording",
                            !.wasRecording = sess.is_recording, !.turn = @ + 1,
                            !.transcription = None, !.first = FALSE, !.gone = FALSE, !.chunks = 0,
                            !.user_query = <<>>, !.s1 = "", !.s2 = "", !.s3 = "",
                            !.pc = "st_commit"]
    /\ vlog' = <<>>
    /\ UNCHANGED <<conv, task, nSent, wsAlive, orphans>>
    /\ UNCHANGED httpFrame

\* handle_message, stop_recording: _stop_recording up to the try block.
RecvStopRecording ==
    /\ Receives("stop_recording")
    /\ LET s == [sess EXCEPT !.is_recording = FALSE, !.last = "stop_recording",
                             !.wasRecording = sess.is_recording, !.turn = @ + 1,
                             !.transcription = None, !.first = FALSE, !.gone = FALSE, !.chunks = 0,
                             !.user_query = <<>>, !.s1 = "", !.s2 = "", !.s3 = ""]
       IN IF ~sess.realtime_client.obj
          THEN SendThen(s, <<>>, Ev("error", <<MsgNoRecording>>), "recv", "run_except")
          ELSE sess' = [s EXCEPT !.pc = "st_commit"] /\ vlog' = <<>>
    /\ UNCHANGED <<conv, task, nSent, wsAlive, orphans>>
    /\ UNCHANGED httpFrame

\* handle_message, close: return False; run breaks out of its loop.
RecvClose ==
    /\ Receives("close")
    /\ sess' = [sess EXCEPT !.pc = "run_finally", !.last = "close", !.closedBy = "close",
                            !.wasRecording = sess.is_recording]
    /\ vlog' = <<>>
    /\ UNCHANGED <<conv, task, nSent, wsAlive, orphans>>
    /\ UNCHANGED httpFrame

\* handle_message, any other type: return True.
RecvOther ==
    /\ Receives("other")
    /\ sess' = [sess EXCEPT !.last = "other", !.wasRecording = sess.is_recording]
    /\ vlog' = <<>>
    /\ UNCHANGED <<conv, task, nSent, wsAlive, orphans>>
    /\ UNCHANGED httpFrame

\* _stop_recording: await self.realtime_client.commit_audio()
StCommit ==
    /\ sess.pc = "st_commit"
    /\ \E o \in CommitAudio(sess.realtime_client) :
         IF o.raised
         THEN /\ sess' = [sess EXCEPT !.pc = "st_except", !.exc = ExcProvider]
              /\ vlog' = vlog \o <<Call("commit_audio"), Raise("commit_audio")>>
         ELSE /\ sess' = [sess EXCEPT !.pc = "st_receive", !.realtime_client = o.client]
              /\ vlog' = vlog \o <<Call("commit_audio"), Return("commit_audio")>>
    /\ UNCHANGED <<conv, task, inbox, nSent, wsAlive, orphans>>
    /\ UNCHANGED httpFrame

\* _stop_recording: the transcription arrives; the no-speech check; the
\* transcription event.
StReceive ==
    /\ sess.pc = "st_receive"
    /\ \E t \in {ReceiveMessages(sess.realtime_client, script) : script \in Scripts} :
         LET s == [sess EXCEPT !.realtime_client = t.client,
                               !.transcription = [some |-> t.some, text |-> t.text]]
             base == vlog \o <<Call("receive_messages"), Return("receive_messages")>>
         IN IF t.hangs
            THEN /\ sess' = [sess EXCEPT !.pc = "st_waiting"]
                 /\ vlog' = Append(vlog, Call("receive_messages"))
            ELSE IF NoSpeech(t)
            THEN SendThen(s, base, Ev("error", <<MsgNoSpeech>>), "st_finally", "st_except")
            ELSE SendThen([s EXCEPT !.user_query = t.text], base,
                          Ev("transcription", t.text), "cp_begin", "st_except")
    /\ UNCHANGED <<conv, task, inbox, nSent, wsAlive, orphans>>
    /\ UNCHANGED httpFrame

\* The conversation stops existing in the store after the session was
\* accepted, between turns or while a turn is being transcribed:
\* get_conversation returns None from then on.
ConversationRemoved ==
    /\ surface = "voice" /\ endpoint.state = "accepted"
    /\ conv.exists
    /\ sess.pc \in {"recv", "st_commit", "st_receive"}
    /\ conv' = [conv EXCEPT !.exists = FALSE]
    /\ UNCHANGED <<task, sess, inbox, nSent, wsAlive, vlog, orphans>>
    /\ UNCHANGED httpFrame

\* (a variant without the check that the conversation exists)
CpBeginNoCheck ==
    /\ sess.pc = "cp_begin"
    /\ \E ok \in BOOLEAN :
         IF ok
         THEN LET first == Len(conv.messages) = 0
                  s == [sess EXCEPT !.first = first]
              IN /\ conv' = Append1(conv, UserMessage(VoiceTurn(sess), sess.user_query))
                 /\ task' = [task EXCEPT ![VoiceOwner] = IF first THEN "running" ELSE @]
                 /\ SendThen(s, IF first THEN Append(vlog, Spawn("title")) ELSE vlog,
                             Ev("stage1_start", <<>>), "s1_call", "st_except")
         ELSE /\ sess' = [sess EXCEPT !.pc = "st_except", !.exc = ExcUserMsg]
              /\ vlog' = Append(vlog, Raise("add_user_message"))
              /\ UNCHANGED <<conv, task>>
    /\ UNCHANGED <<inbox, nSent, wsAlive, orphans>>
    /\ UNCHANGED httpFrame

\* _run_council_process, from its start to the stage1_start event.
CpBegin ==
    /\ sess.pc = "cp_begin"
    /\ IF ~conv.exists
       THEN /\ SendThen([sess EXCEPT !.gone = TRUE], vlog, Ev("error", <<MsgNoConversation>>),
                        "st_finally", "st_except")
            /\ UNCHANGED <<conv, task>>
       ELSE \E ok \in BOOLEAN :
              IF ok
              THEN LET first == Len(conv.messages) = 0
                       s == [sess EXCEPT !.first = first]
                   IN /\ conv' = Append1(conv, UserMessage(VoiceTurn(sess), sess.user_query))
                      /\ task' = [task EXCEPT ![VoiceOwner] = IF first THEN "running" ELSE @]
                      /\ SendThen(s, IF first THEN Append(vlog, Spawn("title")) ELSE vlog,
                                  Ev("stage1_start", <<>>), "s1_call", "st_except")
              ELSE /\ sess' = [sess EXCEPT !.pc = "st_except", !.exc = ExcUserMsg]
                   /\ vlog' = Append(vlog, Raise("add_user_message"))
                   /\ UNCHANGED <<conv, task>>
    /\ UNCHANGED <<inbox, nSent, wsAlive, orphans>>
    /\ UNCHANGED httpFrame

\* One await of a stage function followed by its *_complete event.
VStage(at, fn, results, evtype, next, excmsg, field) ==
    /\ sess.pc = at
    /\ \/ \E res \in results :
            SendThen([sess EXCEPT ![field] = res], vlog \o <<Call(fn), Return(fn)>>,
                     Ev(evtype, <<res>>), next, "st_except")
       \/ /\ sess' = [sess EXCEPT !.pc = "st_except", !.exc = excmsg]
          /\ vlog' = vlog \o <<Call(fn), Raise(fn)>>
    /\ UNCHANGED <<conv, task, inbox, nSent, wsAlive, orphans>>
    /\ UNCHANGED httpFrame

VStage1 == VStage("s1_call", "stage1", Stage1Results(VoiceTurn(sess)), "stage1_complete", "s2_start", ExcStage1, "s1")
VStage2 == VStage("s2_call", "stage2", Stage2Results(VoiceTurn(sess)), "stage2_complete", "s3_start", ExcStage2, "s2")
VStage3 == VStage("s3_call", "stage3", Stage3Results(VoiceTurn(sess)), "stage3_complete", "cp_save", ExcStage3, "s3")

\* The *_start event of the next stage.
VStart(at, evtype, next) ==
    /\ sess.pc = at
    /\ SendThen(sess, vlog, Ev(evtype, <<>>), next, "st_except")
    /\ UNCHANGED <<conv, task, inbox, nSent, wsAlive, orphans>>
    /\ UNCHANGED httpFrame

VStage2Start == VStart("s2_start", "stage2_start", "s2_call")
VStage3Start == VStart("s3_start", "stage3_start", "s3_call")

\* _run_council_process: storage.add_assistant_message
CpSave ==
    /\ sess.pc = "cp_save"
    /\ \E ok \in BOOLEAN :
         IF ok
         THEN /\ conv' = Append1(conv, AssistantMessage(VoiceTurn(sess), sess.s1, sess.s2, sess.s3))
              /\ sess' = [sess EXCEPT !.pc = IF sess.first THEN "cp_title" ELSE "tts_begin"]
              /\ vlog' = Append(vlog, Return("add_assistant_message"))
         ELSE /\ sess' = [sess EXCEPT !.pc = "st_except", !.exc = ExcAsstMsg]
              /\ vlog' = Append(vlog, Raise("add_assistant_message"))
              /\ UNCHANGED conv
    /\ UNCHANGED <<task, inbox, nSent, wsAlive, orphans>>
    /\ UNCHANGED httpFrame

\* _run_council_process: await title_task, update the title, title_complete.
CpTitle ==
    /\ sess.pc = "cp_title"
    /\ \/ /\ task[VoiceOwner] = "done"
          /\ \E t \in Titles :
               /\ conv' = SetTitle(conv, t)
               /\ SendThen(sess, vlog, Ev("title_complete", <<t>>), "tts_begin", "st_except")
       \/ /\ task[VoiceOwner] = "failed"
          /\ sess' = [sess EXCEPT !.pc = "st_except", !.exc = ExcTitle]
          /\ vlog' = Append(vlog, Raise("title"))
          /\ UNCHANGED conv
    /\ UNCHANGED <<task, inbox, nSent, wsAlive, orphans>>
    /\ UNCHANGED httpFrame

\* (a variant without the empty-text return)
TtsBeginNoEmptyCheck ==
    /\ sess.pc = "tts_begin"
    /\ SendThen(sess, vlog, Ev("audio_start", <<>>), "tts_stream", "tts_error")
    /\ UNCHANGED <<conv, task, inbox, nSent, wsAlive, orphans>>
    /\ UNCHANGED httpFrame

\* _stream_audio_response: the empty-text return, or audio_start.
TtsBegin ==
    /\ sess.pc = "tts_begin"
    /\ IF sess.s3 = ""
       THEN SendThen(sess, vlog, Ev("audio_complete", <<>>), "st_finally", "st_except")
       ELSE SendThen(sess, vlog, Ev("audio_start", <<>>), "tts_stream", "tts_error")
    /\ UNCHANGED <<conv, task, inbox, nSent, wsAlive, orphans>>
    /\ UNCHANGED httpFrame

\* (a variant that goes on with the stream after audio_complete)
TtsStreamKeepsSending ==
    /\ sess.pc = "tts_stream"
    /\ \/ /\ sess.chunks < MaxTtsChunks
          /\ SendThen([sess EXCEPT !.chunks = @ + 1], vlog, Ev("audio_response", <<"chunk">>),
                      "tts_stream", "tts_error")
       \/ SendThen([sess EXCEPT !.chunks = @ + 1], vlog, Ev("audio_complete", <<>>),
                   IF sess.chunks < MaxTtsChunks THEN "tts_stream" ELSE "st_finally",
                   "tts_error")
       \/ /\ sess' = [sess EXCEPT !.pc = "tts_error", !.exc = ExcTts]
          /\ vlog' = Append(vlog, Raise("text_to_speech_stream"))
    /\ UNCHANGED <<conv, task, inbox, nSent, wsAlive, orphans>>
    /\ UNCHANGED httpFrame

\* _stream_audio_response: one round of the loop over text_to_speech_stream:
\* a chunk and its audio_response, the end and audio_complete, or an error of
\* the speech synthesis.
TtsStream ==
    /\ sess.pc = "tts_stream"
    /\ \/ /\ sess.chunks < MaxTtsChunks
          /\ SendThen([sess EXCEPT !.chunks = @ + 1], vlog, Ev("audio_response", <<"chunk">>),
                      "tts_stream", "tts_error")
       \/ SendThen(sess, vlog, Ev("audio_complete", <<>>), "st_finally", "tts_error")
       \/ /\ sess' = [sess EXCEPT !.pc = "tts_error", !.exc = ExcTts]
          /\ vlog' = Append(vlog, Raise("text_to_speech_stream"))
    /\ UNCHANGED <<conv, task, inbox, nSent, wsAlive, orphans>>
    /\ UNCHANGED httpFrame

\* (a variant that starts the speech synthesis again after an error)
TtsErrorRetry ==
    /\ sess.pc = "tts_error"
    /\ sess' = [sess EXCEPT !.exc = "", !.pc = "tts_begin"]
    /\ UNCHANGED vlog
    /\ UNCHANGED <<conv, task, inbox, nSent, wsAlive, orphans>>
    /\ UNCHANGED httpFrame

\* _stream_audio_response: except Exception: the TTS error event.
TtsError ==
    /\ sess.pc = "tts_error"
    /\ SendThen([sess EXCEPT !.exc = ""], vlog, Ev("error", <<"TTS error", sess.exc>>),
                "st_finally", "st_except")
    /\ UNCHANGED <<conv, task, inbox, nSent, wsAlive, orphans>>
    /\ UNCHANGED httpFrame

\* _stop_recording: except Exception: the error event.
StExcept ==
    /\ sess.pc = "st_except"
    /\ SendThen([sess EXCEPT !.exc = ""], vlog, Ev("error", <<sess.exc>>),
                "st_finally", "st_finally")
    /\ UNCHANGED <<conv, task, inbox, nSent, wsAlive, orphans>>
    /\ UNCHANGED httpFrame

\* (a variant that closes the client and keeps the reference)
StFinallyKeepsClient ==
    /\ sess.pc = "st_finally"
    /\ sess' = [sess EXCEPT !.realtime_client = Close(@),
                            !.pc = IF sess.exc # "" THEN "run_except" ELSE "recv"]
    /\ vlog' = Append(vlog, Call("close"))
    /\ UNCHANGED <<conv, task, inbox, nSent, wsAlive, orphans>>
    /\ UNCHANGED httpFrame

\* _stop_recording: finally: close the client and drop it; an exception
\* raised in the except block propagates to run.
StFinally ==
    /\ sess.pc = "st_finally"
    /\ sess' = [sess EXCEPT !.realtime_client = NoClient,
                            !.pc = IF sess.exc # "" THEN "run_except" ELSE "recv"]
    /\ vlog' = Append(vlog, Call("close"))
    /\ UNCHANGED <<conv, task, inbox, nSent, wsAlive, orphans>>
    /\ UNCHANGED httpFrame

\* run: except Exception: try to send the error event, ignore a failure.
RunExcept ==
    /\ sess.pc = "run_except"
    /\ sess' = [sess EXCEPT !.pc = "run_finally", !.exc = "", !.closedBy = "exception"]
    /\ vlog' = IF wsAlive THEN Append(vlog, Ev("error", <<sess.exc>>)) ELSE vlog
    /\ UNCHANGED <<conv, task, inbox, nSent, wsAlive, orphans>>
    /\ UNCHANGED httpFrame

\* run: finally: close the client if there is one; run returns.
RunFinally ==
    /\ sess.pc = "run_finally"
    /\ sess' = [sess EXCEPT !.pc = "closed",
                            !.realtime_client = IF @.obj THEN Close(@) ELSE @]
    /\ inbox' = <<>>
    /\ UNCHANGED <<conv, task, nSent, wsAlive, vlog, orphans>>
    /\ UNCHANGED httpFrame

VoiceStep ==
    \/ \E tok \in Tokens, key \in BOOLEAN : VoiceChatEndpoint(tok, key)
    \/ \E m \in ClientMessages : ClientSend(m)
    \/ ClientDisconnect
    \/ ConversationRemoved
    \/ RecvDisconnected
    \/ RecvStartRecording
    \/ RecvAudio
    \/ RecvStopRecording
    \/ RecvClose
    \/ RecvOther
    \/ StCommit
    \/ StReceive
    \/ CpBegin
    \/ VStage1
    \/ VStage2Start
    \/ VStage2
    \/ VStage3Start
    \/ VStage3
    \/ CpSave
    \/ CpTitle
    \/ TtsBegin
    \/ TtsStream
    \/ TtsError
    \/ StExcept
    \/ StFinally
    \/ RunExcept
    \/ RunFinally

\* The steps of the session's own coroutine.
SessionStep ==
    \/ RecvDisconnected \/ RecvStartRecording \/ RecvAudio \/ RecvStopRecording
    \/ RecvClose \/ RecvOther \/ StCommit \/ StReceive \/ CpBegin
    \/ VStage1 \/ VStage2Start \/ VStage2 \/ VStage3Start \/ VStage3
    \/ CpSave \/ CpTitle \/ TtsBegin \/ TtsStream \/ TtsError
    \/ StExcept \/ StFinally \/ RunExcept \/ RunFinally

InitConv == [exists |-> TRUE, user_id |-> ConvOwner, messages |-> <<>>, title |-> "New Conversation"]

\* A conversation that already holds one earlier turn.
PriorTurn == "t0"
PriorConv ==
    [InitConv EXCEPT
        !.messages = <<UserMessage(PriorTurn, RequestContent),
                       AssistantMessage(PriorTurn, "s1_" \o PriorTurn, "s2_" \o PriorTurn,
                                        "s3_" \o PriorTurn)>>,
        !.title = "title"]

\* A behaviour exercises one surface.  The conversation is new, holds an
\* earlier turn, or does not exist.
InitConvs == {InitConv, PriorConv, [InitConv EXCEPT !.exists = FALSE]}
Init ==
    /\ surface \in {"http", "voice"}
    /\ conv \in InitConvs
    /\ endpoint = InitEndpoint
    /\ council = InitCouncil(1)
    /\ task = [o \in Owners |-> "none"]
    /\ req = [r \in ReqIds |-> NoReq]
    /\ sess = InitSess
    /\ inbox = <<>>
    /\ nSent = 0
    /\ wsAlive = TRUE
    /\ vlog = <<>>
    /\ orphans = 0
    /\ rt = NoRt
    /\ userdb = NoUserDb

Next ==
    \/ \E r \in ReqIds : HttpStep(r)
    \/ VoiceStep
    \/ \E o \in Owners : TitleTaskSettle(o)

Spec == Init /\ [][Next]_vars

\* One turn inside the council stages, for every size of the model list.
InitCouncilTurn ==
    /\ surface = "council"
    /\ conv = InitConv
    /\ endpoint = InitEndpoint
    /\ council \in {InitCouncil(n) : n \in 1..MaxModels}
    /\ task = [o \in Owners |-> "none"]
    /\ req = [r \in ReqIds |-> NoReq]
    /\ sess = InitSess
    /\ inbox = <<>>
    /\ nSent = 0
    /\ wsAlive = TRUE
    /\ vlog = <<>>
    /\ orphans = 0
    /\ rt = NoRt
    /\ userdb = NoUserDb

SpecCouncil == InitCouncilTurn /\ [][CouncilStep]_vars

\* The application before its first start, with an empty users table.
InitUsers ==
    /\ surface = "users"
    /\ userdb = NoUserDb
    /\ rt = NoRt
    /\ conv = InitConv
    /\ endpoint = InitEndpoint
    /\ council = InitCouncil(1)
    /\ task = [o \in Owners |-> "none"]
    /\ req = [r \in ReqIds |-> NoReq]
    /\ sess = InitSess
    /\ inbox = <<>>
    /\ nSent = 0
    /\ wsAlive = TRUE
    /\ vlog = <<>>
    /\ orphans = 0

SpecUsers == InitUsers /\ [][UsersStep]_vars

\* A RealtimeClient on its own.
InitRealtimeClient ==
    /\ InitRealtime
    /\ conv = InitConv
    /\ endpoint = InitEndpoint
    /\ council = InitCouncil(1)
    /\ task = [o \in Owners |-> "none"]
    /\ req = [r \in ReqIds |-> NoReq]
    /\ sess = InitSess
    /\ inbox = <<>>
    /\ nSent = 0
    /\ wsAlive = TRUE
    /\ vlog = <<>>
    /\ orphans = 0
    /\ userdb = NoUserDb

SpecRealtime == InitRealtimeClient /\ [][RealtimeStep]_vars

\* Requests of the conversation's owner that are in flight at the same time
\* for one empty conversation, each followed from its arrival to the point
\* where it has started title generation or has passed it by.
RacingIds == 1..MaxRacing
InitRace ==
    /\ surface = "http"
    /\ conv = InitConv
    /\ endpoint = InitEndpoint
    /\ council = InitCouncil(1)
    /\ task = [o \in RacingIds \cup {VoiceOwner} |-> "none"]
    /\ req = [r \in RacingIds |-> NoReq]
    /\ sess = InitSess
    /\ inbox = <<>>
    /\ nSent = 0
    /\ wsAlive = TRUE
    /\ vlog = <<>>
    /\ orphans = 0
    /\ rt = NoRt
    /\ userdb = NoUserDb

RaceStep ==
    \/ \E r \in RacingIds : SendMessageStream(r, ConvOwner)
    \/ \E r \in RacingIds : GenStart(r)
    \/ \E r \in RacingIds : SendMessage(r, ConvOwner)
    \/ \E r \in RacingIds : AtomicTitle(r)
    \/ \E r \in RacingIds : TitleTaskSettle(r)

SpecRace == InitRace /\ [][RaceStep]_vars

\* The event loop runs a coroutine that can take a step, and a title task
\* that was started settles.
SpecFair ==
    Spec /\ WF_vars(SessionStep) /\ WF_vars(\E o \in Owners : TitleTaskSettle(o))

\* ------------------------------------------------------------------ claims

Has(log, e) == \E i \in 1..Len(log) : log[i] = e
IsPrefix(p, q) == Len(p) <= Len(q) /\ SubSeq(q, 1, Len(p)) = p
Last(q) == q[Len(q)]
Front(q) == SubSeq(q, 1, Len(q) - 1)

StageFns == {"stage1", "stage2", "stage3"}
StageEventTypes == {"stage1_start", "stage1_complete", "stage2_start", "stage2_complete",
                    "stage3_start", "stage3_complete"}
IsStageCall(e) == e.type \in {"call", "return", "raise"} /\ e.data[1] \in StageFns

\* The stage events and the stage calls of a log, in order.
StageTrace(log) ==
    LET sel == SelectSeq(log, LAMBDA e : e.type \in StageEventTypes \/ IsStageCall(e))
    IN [i \in 1..Len(sel) |-> IF IsStageCall(sel[i]) THEN <<sel[i].type, sel[i].data[1]>>
                                                     ELSE <<sel[i].type, "">>]

\* The one order in which the stages run and their events are emitted.
StageOrder ==
    << <<"stage1_start", "">>, <<"call", "stage1">>, <<"return", "stage1">>, <<"stage1_complete", "">>,
       <<"stage2_start", "">>, <<"call", "stage2">>, <<"return", "stage2">>, <<"stage2_complete", "">>,
       <<"stage3_start", "">>, <<"call", "stage3">>, <<"return", "stage3">>, <<"stage3_complete", "">> >>

\* A trace follows the order when it is a prefix of it, or such a prefix whose
\* last call raised instead of returning.
FollowsStageOrder(t) ==
    \/ IsPrefix(t, StageOrder)
    \/ /\ t # <<>> /\ Last(t)[1] = "raise"
       /\ IsPrefix(Append(Front(t), <<"return", Last(t)[2]>>), StageOrder)

\* C1: in every run of the streaming endpoint's event generator the stage
\* events form a prefix of stage1_start, stage1_complete, stage2_start,
\* stage2_complete, stage3_start, stage3_complete, each emitted at most once,
\* and the function of stage k+1 is called only after the function of stage
\* k has returned and its *_complete event was emitted.
C1_StageOrder ==
    \A r \in ReqIds : req[r].kind = "stream" => FollowsStageOrder(StageTrace(req[r].log))

C1_Witness ==
    \E r \in ReqIds : /\ req[r].kind = "stream"
                      /\ StageTrace(req[r].log) = StageOrder

TerminalTypes == {"complete", "error"}
Terminals(log) == SelectSeq(Events(log), LAMBDA e : e.type \in TerminalTypes)
Raises(log) == SelectSeq(log, LAMBDA e : e.type = "raise")

\* The message of the exception a call raises.
ExcMessage(fn) ==
    CASE fn = "add_user_message" -> ExcUserMsg
      [] fn = "stage1" -> ExcStage1
      [] fn = "stage2" -> ExcStage2
      [] fn = "stage3" -> ExcStage3
      [] fn = "title" -> ExcTitle
      [] fn = "add_assistant_message" -> ExcAsstMsg

\* C2: a run of the event generator emits at most one terminal event
\* (complete or error), nothing after it, and exactly one when the run is
\* driven to its end; when the user-message append, a stage function, the
\* title task or the assistant-message append raises, the terminal event is
\* error with the exception's message, and complete is not emitted.
C2_OneTerminalEvent ==
    \A r \in ReqIds :
        (req[r].kind = "stream" /\ req[r].status = 200) =>
            LET log == req[r].log
                ev == Events(log)
            IN /\ Len(Terminals(log)) <= 1
               /\ Len(Terminals(log)) = 1 => Last(ev).type \in TerminalTypes
               /\ req[r].pc = "done" => Len(Terminals(log)) = 1
               /\ Raises(log) # <<>> =>
                     /\ Len(Raises(log)) = 1
                     /\ Terminals(log) = <<Ev("error", <<ExcMessage(Raises(log)[1].data[1])>>)>>
                     /\ Last(log).type = "error"

C2_Witness ==
    \E r \in ReqIds : /\ req[r].kind = "stream" /\ req[r].pc = "done"
                      /\ Has(req[r].log, Raise("stage2"))
                      /\ Last(req[r].log) = Ev("error", <<ExcStage2>>)

\* The handling of a stop_recording message has finished and the session
\* waits for the next client message.
TurnDone == sess.last = "stop_recording" /\ sess.pc = "recv"
\* A text with something other than whitespace in it.
IsSpeech(t) == t.some /\ \E i \in 1..Len(t.text) : t.text[i] # " "
\* The stop_recording was received while recording, the transcription is
\* speech, the conversation was found and no call made while handling it
\* failed.
CleanTurn ==
    /\ TurnDone /\ sess.wasRecording
    /\ IsSpeech(sess.transcription)
    /\ Raises(vlog) = <<>>
    /\ ~sess.gone

Rep(n, x) == [i \in 1..n |-> x]
DeliberationTypes ==
    <<"transcription", "stage1_start", "stage1_complete", "stage2_start", "stage2_complete",
      "stage3_start", "stage3_complete">>
\* title_complete belongs to the turn that found the conversation without
\* messages.
TitleTypes == IF sess.first THEN <<"title_complete">> ELSE <<>>
Playback(k) == <<"audio_start">> \o Rep(k, "audio_response") \o <<"audio_complete">>
Idle == sess.pc = "recv" /\ ~sess.is_recording /\ ~sess.realtime_client.obj

\* C3 as stated: after a clean turn the events are transcription, the six
\* stage events, title_complete for a first message, then audio_start, zero
\* or more audio_response and audio_complete, and the session is Idle.
C3_Original ==
    CleanTurn =>
        /\ \E k \in 0..Len(vlog) :
             Types(Events(vlog)) = DeliberationTypes \o TitleTypes \o Playback(k)
        /\ Idle

\* C3: after a clean turn the events are transcription, the six stage events,
\* title_complete for a first message, then, when the Stage-3 response text
\* is not empty, audio_start, zero or more audio_response and audio_complete,
\* and audio_complete alone when it is empty; the session is Idle with no
\* sub-connection.
C3_CleanTurnEvents ==
    CleanTurn =>
        /\ \E k \in 0..Len(vlog) :
             Types(Events(vlog)) =
                 DeliberationTypes \o TitleTypes
                 \o (IF sess.s3 = "" THEN <<"audio_complete">> ELSE Playback(k))
        /\ Idle

C3_Witness ==
    /\ CleanTurn /\ sess.s3 # "" /\ sess.chunks > 0
    /\ Has(vlog, Ev("title_complete", <<"title">>))
    /\ Last(vlog) = Call("close")

AssistantMessages == SelectSeq(conv.messages, LAMBDA m : m.role = "assistant")
\* What a turn did, from its log and its locals: the assistant message, if
\* any, was appended after stage 3 returned and holds the turn's results,
\* and there is none when a stage raised.
TurnSavedRight(turn, log, s1, s2, s3) ==
    /\ AssistantBy(turn) # <<>> =>
          /\ Has(log, Return("stage3"))
          /\ AssistantBy(turn)[1].content = <<s1, s2, s3>>
    /\ (\E fn \in StageFns : Has(log, Raise(fn))) => AssistantBy(turn) = <<>>

\* C4: on each surface the assistant message of a turn is appended at most
\* once, only after stage 3 has returned, with that turn's stage 1, stage 2
\* and stage 3 results; when a stage raises, none is appended for the turn.
C4_AssistantMessage ==
    /\ \A i, j \in 1..Len(AssistantMessages) :
          i # j => AssistantMessages[i].by # AssistantMessages[j].by
    /\ \A i \in 1..Len(AssistantMessages) :
          LET m == AssistantMessages[i]
          IN /\ m.content[1] \in Stage1Results(m.by)
             /\ m.content[2] \in Stage2Results(m.by)
             /\ m.content[3] \in Stage3Results(m.by)
    /\ \A r \in ReqIds :
          req[r].kind # "none" =>
              TurnSavedRight(ReqTurn(r), req[r].log, req[r].s1, req[r].s2, req[r].s3)
    /\ sess.last = "stop_recording" =>
          TurnSavedRight(VoiceTurn(sess), vlog, sess.s1, sess.s2, sess.s3)

C4_Witness ==
    /\ sess.last = "stop_recording" /\ sess.turn = 2
    /\ Len(AssistantMessages) = 2
    /\ AssistantBy(VoiceTurn(sess)) # <<>>

\* C5: a stop_recording received while the session is not recording is
\* answered with exactly one error event; the session stays Idle with no
\* sub-connection, calls no collaborator and persists nothing.
C5_StopWhenIdle ==
    (sess.last = "stop_recording" /\ ~sess.wasRecording) =>
        /\ vlog = <<Ev("error", <<MsgNoRecording>>)>>
        /\ Idle
        /\ UserBy(VoiceTurn(sess)) = <<>> /\ AssistantBy(VoiceTurn(sess)) = <<>>

C5_Witness ==
    /\ sess.last = "stop_recording" /\ ~sess.wasRecording
    /\ sess.turn = 2 /\ conv.messages # <<>>
    /\ vlog = <<Ev("error", <<MsgNoRecording>>)>>

\* A transcription that is missing, empty or whitespace only.
BlankResult(t) == ~t.some \/ \A i \in 1..Len(t.text) : t.text[i] = " "
Transcribed == sess.last = "stop_recording" /\ Has(vlog, Return("receive_messages"))
TranscriptionCalls == {"commit_audio", "receive_messages", "close", "send_event"}

\* C6: when the transcription is missing, empty or whitespace only, the
\* session sends the error "No speech detected" and no transcription or
\* stage event, calls no council stage and no title generation, appends
\* nothing to the conversation, closes the sub-connection and is Idle again.
C6_NoSpeech ==
    (Transcribed /\ BlankResult(sess.transcription)) =>
        /\ ~Has(vlog, Raise("send_event")) => Events(vlog) = <<Ev("error", <<MsgNoSpeech>>)>>
        /\ \A i \in 1..Len(vlog) :
              IF IsCall(vlog[i]) THEN vlog[i].data[1] \in TranscriptionCalls
                                 ELSE vlog[i].type = "error"
        /\ UserBy(VoiceTurn(sess)) = <<>> /\ AssistantBy(VoiceTurn(sess)) = <<>>
        /\ sess.pc \in {"st_finally", "st_except", "recv", "run_except", "run_finally", "closed"}
        /\ wsAlive => sess.pc \in {"st_finally", "recv"}
        /\ sess.pc \notin {"st_finally", "st_except"} => sess.realtime_client.ws = "none"
        /\ sess.pc = "recv" => Idle

C6_Witness ==
    /\ Transcribed /\ sess.transcription = [some |-> TRUE, text |-> <<" ", " ">>]
    /\ Idle /\ Events(vlog) = <<Ev("error", <<MsgNoSpeech>>)>>

\* C7 as stated: after a start_recording whose connection to the
\* speech-to-text collaborator failed, the session is not marked as
\* recording and holds no transcription client.
C7_Original ==
    (sess.last = "start_recording" /\ Has(vlog, Raise("connect")) /\ sess.pc = "recv") =>
        (~sess.is_recording /\ ~sess.realtime_client.obj)

\* C8 as stated: an exception while handling a client message ends the
\* session only when the client connection itself failed.
C8_Original ==
    sess.pc = "closed" => (sess.closedBy = "close" \/ ~wsAlive)

\* C9 as stated: once run() has returned, no title task started by the
\* session is still running and no sub-connection it opened is still open.
C9_Original ==
    sess.pc = "closed" =>
        /\ task[VoiceOwner] # "running"
        /\ orphans = 0 /\ sess.realtime_client.ws # "open"

\* C10 as stated: once the client's close message is the next message for a
\* session that is handling a stop_recording (Transcribing, Deliberating or
\* Speaking), no further server event is sent.
C10_Original ==
    [][(inbox # <<>> /\ Head(inbox).type = "close" /\ sess.last = "stop_recording"
          /\ ~Has(vlog, Raise("send_event"))) =>
           Len(Events(vlog')) <= Len(Events(vlog))]_vars

\* The positions of an entry in a log.
Positions(log, e) == {i \in 1..Len(log) : log[i] = e}
TitleAwaits == {Call("title"), Raise("title")}

\* C11 as stated: on every surface no stage function is called after the
\* turn has waited for the title generation: the title is awaited only once
\* stage 3 has returned.
C11_Original ==
    \A r \in ReqIds :
        \A i \in 1..Len(req[r].log) :
            req[r].log[i] \in TitleAwaits =>
                \A j \in (i + 1)..Len(req[r].log) :
                    ~(IsStageCall(req[r].log[j]) /\ req[r].log[j].type = "call")

\* C12 as stated: when stage 1 returns no successful answer, the streaming
\* generator and the voice session do not start stage 2 and append no
\* assistant message, and a finished turn has sent an error event.
C12_Original ==
    /\ \A r \in ReqIds :
          (req[r].kind = "stream" /\ req[r].s1 = NoAnswers(ReqTurn(r))) =>
              /\ ~Has(req[r].log, Ev("stage2_start", <<>>))
              /\ AssistantBy(ReqTurn(r)) = <<>>
              /\ req[r].pc = "done" => Has(Types(req[r].log), "error")
    /\ (sess.last = "stop_recording" /\ sess.s1 = NoAnswers(VoiceTurn(sess))) =>
          /\ ~Has(vlog, Ev("stage2_start", <<>>))
          /\ AssistantBy(VoiceTurn(sess)) = <<>>
          /\ TurnDone => Has(Types(vlog), "error")

\* The audio chunks among the items sent on the sub-connection.
AudioItems == {"a", "b"}
AudioOf(sent) == SelectSeq(sent, LAMBDA x : x \in AudioItems)
\* A non-empty audio message was handled while the session was recording
\* with a usable sub-connection.
AudioWhileRecording ==
    /\ sess.last = "audio" /\ vlog # <<>>
    /\ sess.wasRecording /\ Usable(sess.realtime_client)
Forwarded == <<Call("send_audio"), Return("send_audio")>>

CauseOf(reason) ==
    CASE reason = "Authentication required" -> "missing credential"
      [] reason \in {"Invalid token", "User not found"} -> "invalid credential"
      [] reason = "OpenAI API key not configured" -> "unconfigured provider"
      [] reason = "Conversation not found" -> "unknown resource"
      [] reason = "Access denied" -> "access denied"
      [] OTHER -> "none"
\* What the endpoint answers to every input.
SetupAnswers == {Setup(tok, key, c) : tok \in Tokens, key \in BOOLEAN, c \in InitConvs}

\* C14 as stated: the close code of a refused connection is sent for no
\* other cause of refusal.
C14_Original ==
    endpoint.state = "refused" =>
        \A a \in SetupAnswers :
            (~a.accept /\ CauseOf(a.reason) # CauseOf(endpoint.reason)) =>
                a.code # endpoint.code

\* All setup checks pass: the token is present and verifiable, its user
\* exists, the provider key is configured, the conversation exists and
\* belongs to the user.
SetupOk(tok, key, c) ==
    /\ tok \notin {"none", "invalid"} /\ tok \in Users
    /\ key
    /\ c.exists /\ c.user_id = tok
NothingHandled ==
    /\ sess = InitSess /\ inbox = <<>> /\ nSent = 0 /\ vlog = <<>>
    /\ orphans = 0 /\ wsAlive
    /\ conv \in InitConvs
    /\ \A o \in Owners : task[o] = "none"

\* C15: the voice endpoint accepts the connection only when every setup
\* check passed; when a check fails the connection is closed with a close
\* code and never accepted, no client message is handled, and no provider,
\* council or storage-write call is made; before the accept nothing is
\* handled either.
C15_StatePart ==
    /\ endpoint.state = "accepted" =>
          SetupOk(endpoint.token, endpoint.key, [conv EXCEPT !.exists = TRUE])
    /\ endpoint.state = "refused" =>
          /\ ~SetupOk(endpoint.token, endpoint.key, conv)
          /\ endpoint.code \in {4001, 4003, 4004}
    /\ (surface = "voice" /\ endpoint.state # "accepted") => NothingHandled
C15_AcceptAfterChecks ==
    /\ []C15_StatePart
    /\ [][(endpoint.state # "accepted" /\ endpoint'.state = "accepted") =>
              SetupOk(endpoint'.token, endpoint'.key, conv)]_vars

C15_Witness ==
    /\ endpoint.state = "refused" /\ endpoint.token = "bob" /\ endpoint.key
    /\ endpoint.reason = "Access denied" /\ conv = PriorConv

Rejected(q) == q.status \in {403, 404}
\* A request that was rejected has done nothing.
RejectedClean(r) ==
    /\ req[r].pc = "done" /\ req[r].log = <<>>
    /\ UserBy(ReqTurn(r)) = <<>> /\ AssistantBy(ReqTurn(r)) = <<>>
    /\ task[r] = "none"
RejectionsRight ==
    \A r \in ReqIds :
        req[r].kind # "none" =>
            /\ req[r].status = 404 <=> ~conv.exists
            /\ req[r].status = 403 <=> (conv.exists /\ conv.user_id # req[r].user)
            /\ Rejected(req[r]) => RejectedClean(r)
RejectionStep ==
    \A r \in ReqIds :
        (req[r].kind = "none" /\ Rejected(req'[r])) => (conv' = conv /\ task' = task)

\* C16: on the atomic and the streaming endpoint a request for a missing
\* conversation is answered 404 and a request by a user who does not own the
\* conversation 403; the rejecting step leaves the conversation and the
\* title tasks unchanged, and the rejected request appends no message,
\* starts no title generation and calls no stage.
C16_Rejections == []RejectionsRight /\ [][RejectionStep]_vars

C16_Witness ==
    \E r \in ReqIds :
        /\ req[r].kind = "stream" /\ req[r].status = 403 /\ req[r].user = "bob"
        /\ conv = PriorConv

\* The session has received stop_recording and waits for the transcription.
Transcribing == sess.pc \in {"st_commit", "st_receive", "st_waiting"}

\* C17 as stated: a session that waits for the transcription eventually
\* stops waiting, whatever the speech-to-text collaborator does.
C17_Original == Transcribing ~> ~Transcribing

Count(log, e) == Cardinality(Positions(log, e))
ProviderFns == {"connect", "commit_audio", "receive_messages"}
AudioTypes == {"audio_start", "audio_response", "audio_complete"}
TtsFailure == Raise("text_to_speech_stream")

\* C18: within one turn each stage function is called at most once on every
\* surface; while the session handles one client message it connects to the
\* transcription collaborator, commits and waits for the transcription at
\* most once each, whether or not the call failed; the speech synthesis is
\* started at most once, and after it failed no further audio event is sent.
C18_NoRetry ==
    /\ \A r \in ReqIds : \A fn \in StageFns : Count(req[r].log, Call(fn)) <= 1
    /\ \A fn \in StageFns \cup ProviderFns : Count(vlog, Call(fn)) <= 1
    /\ Count(vlog, Ev("audio_start", <<>>)) <= 1
    /\ Count(vlog, TtsFailure) <= 1
    /\ \A i \in Positions(vlog, TtsFailure) :
          \A j \in (i + 1)..Len(vlog) : vlog[j].type \notin AudioTypes

C18_Witness ==
    /\ TurnDone /\ Has(vlog, TtsFailure)
    /\ Has(vlog, Ev("error", <<"TTS error", ExcTts>>))
    /\ Count(vlog, Call("stage3")) = 1

Range(q) == {q[i] : i \in 1..Len(q)}
Injective(q) == \A i, j \in 1..Len(q) : q[i] = q[j] => i = j

\* C19: stage 1 completes only when all N calls have settled, whatever the
\* order in which they settled and whichever of them failed, and its result
\* has exactly N entries, the i-th for the i-th configured model, each an
\* answer or a failure according to how that model's call settled.
C19_Stage1Result ==
    /\ council.phase \in {"idle", "stage1"} => council.answers = <<>>
    /\ council.phase \notin {"idle", "stage1"} =>
          /\ \A i \in 1..council.n : council.status[i] \in {"ok", "failed"}
          /\ Len(council.answers) = council.n
          /\ \A i \in 1..council.n :
                /\ council.answers[i].model = ConfiguredModels(council.n)[i]
                /\ council.answers[i].kind = "answer" <=> council.status[i] = "ok"
                /\ council.answers[i].kind = "failure" <=> council.status[i] = "failed"

C19_Witness ==
    /\ council.phase = "stage1_done" /\ council.n = 3
    /\ council.settled = <<3, 1, 2>>
    /\ council.status = <<"ok", "failed", "ok">>

\* C20: the label-to-model map of a turn is one-to-one, its models are
\* exactly the models with a successful stage-1 answer, every ranking
\* request of the turn was made with that map, and the aggregate ranking is
\* computed over that map.
C20_LabelMap ==
    council.phase \in {"stage2", "stage2_done"} =>
        /\ Injective(council.label_to_model)
        /\ Range(council.label_to_model) =
              {council.answers[i].model : i \in {j \in 1..council.n : council.status[j] = "ok"}}
        /\ \A i \in 1..council.n : council.prompts[i] = council.label_to_model
        /\ council.phase = "stage2_done" => council.aggregate_over = council.label_to_model

C20_Witness ==
    /\ council.phase = "stage2_done" /\ council.n = 3
    /\ council.status = <<"ok", "failed", "ok">>
    /\ council.label_to_model = <<"m1", "m3">>
    /\ council.rankings = <<"best_first", "reversed", "failed">>

\* The sequences that hold the entries of s in another order.
PermutationsOf(n) == {f \in [1..n -> 1..n] : \A i, j \in 1..n : f[i] = f[j] => i = j}
Reorderings(s) == {[i \in 1..Len(s) |-> s[f[i]]] : f \in PermutationsOf(Len(s))}

\* C21: the aggregate ranking of a turn is a function of its ranking
\* submissions and its label map alone: computing it again from them gives
\* the same aggregate, and so does computing it from the submissions taken
\* in any other order, ties included.
C21_AggregatePure ==
    council.phase = "stage2_done" =>
        /\ council.aggregate =
              CalculateAggregateRankings(Submissions(council), council.label_to_model)
        /\ \A subs \in Reorderings(Submissions(council)) :
              CalculateAggregateRankings(subs, council.label_to_model) = council.aggregate

\* Two raters that disagree, which leaves the two labels tied.
C21_Witness ==
    /\ council.phase = "stage2_done" /\ council.n = 2
    /\ council.rankings = <<"best_first", "reversed">>
    /\ council.label_to_model = <<"m1", "m2">>
    /\ council.aggregate = <<[model |-> "m1", score |-> 1], [model |-> "m2", score |-> 1]>>

\* The submissions of the raters whose reply was a total order of the labels.
ValidSubmissions(c) ==
    SelectSeq(Submissions(c),
              LAMBDA sub : c.rankings[sub.rater] \in {"best_first", "reversed"})

\* C22: a reply that names a label outside the label set, that omits a
\* label or that cannot be parsed does not abort stage 2 and contributes
\* nothing: the aggregate is the one of the valid submissions alone, and it
\* ranks exactly the models with a successful stage-1 answer.
C22_InvalidIgnored ==
    /\ council.phase = "aborted" => SuccessfulModels(council.answers) = <<>>
    /\ council.phase = "stage2_done" =>
          /\ council.aggregate =
                CalculateAggregateRankings(ValidSubmissions(council), council.label_to_model)
          /\ Len(council.aggregate) = Len(SuccessfulModels(council.answers))
          /\ {council.aggregate[r].model : r \in 1..Len(council.aggregate)} =
                Range(SuccessfulModels(council.answers))

C22_Witness ==
    /\ council.phase = "stage2_done" /\ council.n = 3
    /\ council.status = <<"ok", "ok", "failed">>
    /\ council.rankings = <<"omits_label", "reversed", "unknown_label">>
    /\ council.aggregate = <<[model |-> "m2", score |-> 1], [model |-> "m1", score |-> 0]>>

\* The transcription sub-connections of the session that are open: the one
\* the session holds and the ones it no longer holds.
OpenSubConnections ==
    orphans + (IF sess.realtime_client.ws = "open" THEN 1 ELSE 0)

\* C23 as stated: a session has at most one open transcription
\* sub-connection at any time, and every sub-connection it opened is closed
\* once run() has returned.
C23_Original ==
    /\ OpenSubConnections <= 1
    /\ sess.pc = "closed" => OpenSubConnections = 0

\* The stop_recording that is being handled, or was handled last, found a
\* transcription client.
FoundClient == sess.last = "stop_recording" /\ Has(vlog, Call("commit_audio"))
\* _stop_recording has returned or raised.
StopRecordingOver == sess.pc \in {"recv", "run_except", "run_finally", "closed"}

\* C24: when the handling of a stop_recording that found a transcription
\* client is over, whichever way it ended, the sub-connection has been
\* closed and the session holds no client; the session never waits for the
\* next client message after a stop_recording with a client in hand.
C24_ClientReleased ==
    /\ (FoundClient /\ StopRecordingOver) =>
          /\ sess.realtime_client = NoClient
          /\ Has(vlog, Call("close"))
    /\ (sess.last = "stop_recording" /\ sess.pc = "recv") => ~sess.realtime_client.obj

\* A turn that ended with a failure of stage 3.
C24_Witness ==
    /\ FoundClient /\ sess.pc = "recv"
    /\ Has(vlog, Raise("stage3"))
    /\ sess.realtime_client = NoClient

\* The session takes a message from the queue of the client's messages.
MessageTaken == wsAlive' /\ sess'.pc # "closed" /\ Len(inbox') < Len(inbox)
\* A stop_recording was taken and its handling is not over.
TurnInProgress == sess.last = "stop_recording" /\ ~StopRecordingOver

TitleStarted(o) ==
    \/ task[o] # "none"
    \/ o \in DOMAIN req /\ Has(req[o].log, Call("title"))

\* C26 as stated: title generation is started at most once for a
\* conversation, whatever the interleaving of the requests.
C26_Original ==
    Cardinality({o \in DOMAIN task : TitleStarted(o)}) <= 1

\* A stage, the title task or the append of the assistant message failed.
TurnFailures ==
    {Raise(fn) : fn \in StageFns} \cup {Raise("title"), Raise("add_assistant_message")}
\* The turn `turn` with log `log` kept its user message from stage1_start
\* on, and kept it alone when something failed afterwards.
UserMessageKept(turn, log) ==
    /\ Has(log, Ev("stage1_start", <<>>)) => Len(UserBy(turn)) = 1
    /\ (\E f \in TurnFailures : Has(log, f)) =>
          /\ Len(UserBy(turn)) = 1
          /\ AssistantBy(turn) = <<>>

\* C27 as stated: on the streaming and voice surfaces the user message is in
\* the conversation once stage1_start is emitted and stays there, and when a
\* later stage, the title task or the append of the assistant message
\* fails, the conversation holds the turn's user message and no assistant
\* message of the turn.
C27_Original ==
    /\ \A r \in ReqIds : req[r].kind = "stream" => UserMessageKept(ReqTurn(r), req[r].log)
    /\ sess.last = "stop_recording" => UserMessageKept(VoiceTurn(sess), vlog)

\* The events of a playback: the audio events and the `TTS error` event.
IsTtsError(e) == e.type = "error" /\ e.data # <<>> /\ e.data[1] = "TTS error"
PlaybackEvents ==
    SelectSeq(Events(vlog), LAMBDA e : e.type \in AudioTypes \/ IsTtsError(e))
EndsPlayback(e) == e.type = "audio_complete" \/ IsTtsError(e)
\* audio_start, audio_response events, and at most one event that ends the
\* playback, which is then the last one.
WellBracketed(a) ==
    /\ a[1].type = "audio_start"
    /\ \A i \in 2..Len(a) :
          \/ a[i].type = "audio_response"
          \/ i = Len(a) /\ EndsPlayback(a[i])

\* C28: in the events of a voice turn the audio_response events lie between
\* an audio_start and the one event that ends the playback, audio_complete
\* or the `TTS error` event, after which no audio event follows; a turn that
\* is over, with no failed send, has ended the playback it started; with an
\* empty text audio_complete is the only audio event and the speech
\* synthesis is not entered.
C28_StatePart ==
    sess.last = "stop_recording" =>
        /\ \/ PlaybackEvents = <<>>
           \/ PlaybackEvents = <<Ev("audio_complete", <<>>)>> /\ sess.s3 = ""
           \/ WellBracketed(PlaybackEvents) /\ sess.s3 # ""
        /\ (StopRecordingOver /\ Has(vlog, Ev("audio_start", <<>>))
               /\ ~Has(vlog, Raise("send_event"))) =>
              EndsPlayback(Last(PlaybackEvents))
        /\ sess.s3 = "" => (~Has(vlog, TtsFailure) /\ sess.chunks = 0)
C28_Playback ==
    /\ []C28_StatePart
    /\ [][(sess.last = "stop_recording" /\ sess.s3 = "") =>
              sess'.pc \notin {"tts_stream", "tts_error"}]_vars

\* A playback that sent a chunk and was ended by an error of the synthesis.
C28_Witness ==
    /\ sess.last = "stop_recording" /\ sess.pc = "recv"
    /\ Len(PlaybackEvents) = 3
    /\ PlaybackEvents[2].type = "audio_response"
    /\ IsTtsError(PlaybackEvents[3])

\* The turn of the last stop_recording found the conversation gone when it
\* started deliberating.
ConversationGone == sess.last = "stop_recording" /\ sess.gone

\* C29: a voice turn that finds the conversation gone when it starts
\* deliberating sends one error event, "Conversation not found", after the
\* transcription, appends no user message, starts no title task, calls no
\* stage, sends no stage event and no audio event, and ends Idle with the
\* sub-connection closed.
C29_StatePart ==
    ConversationGone =>
        /\ ~Has(vlog, Raise("send_event")) =>
              Events(vlog) = <<Ev("transcription", sess.user_query),
                               Ev("error", <<MsgNoConversation>>)>>
        /\ \A i \in 1..Len(vlog) :
              /\ vlog[i].type \notin StageEventTypes \cup AudioTypes
              /\ ~IsStageCall(vlog[i])
              /\ vlog[i] # Spawn("title")
        /\ UserBy(VoiceTurn(sess)) = <<>>
        /\ StopRecordingOver => sess.realtime_client = NoClient /\ Has(vlog, Call("close"))
        /\ sess.pc = "recv" => Idle
C29_NoConversation ==
    /\ []C29_StatePart
    /\ [][(sess.pc = "cp_begin" /\ ~conv.exists) =>
              /\ conv' = conv
              /\ task'[VoiceOwner] = "running" => task[VoiceOwner] = "running"]_vars

C29_Witness ==
    /\ ConversationGone /\ sess.pc = "recv"
    /\ Events(vlog) = <<Ev("transcription", sess.user_query),
                        Ev("error", <<MsgNoConversation>>)>>

\* The fallback text receive_messages holds after the first i events: the
\* first non-empty response.text.done text.
FallbackAfter(es, i) ==
    LET S == {j \in 1..i : es[j].type = "text_done" /\ es[j].data # <<>>}
    IN IF S = {} THEN <<>> ELSE es[CHOOSE j \in S : \A k \in S : j <= k].data
\* The events that make receive_messages return.
Returning(es) ==
    {i \in 1..Len(es) :
        \/ es[i].type \in {"completed", "error"}
        \/ es[i].type = "response_done" /\ FallbackAfter(es, i - 1) # <<>>}
FirstOf(S) == CHOOSE i \in S : \A k \in S : i <= k
Received == [some |-> rt.some, text |-> rt.text]
Some(t) == [some |-> TRUE, text |-> t]
RtUsable == Usable(rt.before)

\* C30 as stated: a fallback text is returned only at a later response.done
\* or when the connection closes.
C30_Original ==
    (rt.op = "receive_messages" /\ RtUsable /\ rt.some
       /\ \A i \in Returning(rt.script.events) : rt.script.events[i].type # "completed") =>
        \/ \E i \in Returning(rt.script.events) : rt.script.events[i].type = "response_done"
        \/ rt.script.end \in {"end", "closed"}

\* C30: on a connected client receive_messages returns at the first event
\* that is a completed transcription (its transcript), an error (None, the
\* fallback text dropped) or a response.done that finds a fallback text (the
\* fallback); with no such event it waits while the provider stays silent,
\* and otherwise returns the fallback text, or None without one, when the
\* stream ends, the connection closes or reading raises any other
\* exception.  On a client that is not connected it returns None, and
\* send_audio and commit_audio send nothing and do not fail.
C30_ReceiveMessages ==
    /\ (rt.op = "receive_messages" /\ ~RtUsable) =>
          /\ Received = None /\ ~rt.hangs
          /\ rt.client = rt.before
    /\ (rt.op = "receive_messages" /\ RtUsable) =>
          LET es == rt.script.events
          IN IF Returning(es) # {}
             THEN LET e == es[FirstOf(Returning(es))]
                  IN /\ ~rt.hangs
                     /\ e.type = "completed" => Received = Some(e.data)
                     /\ e.type = "error" => Received = None
                     /\ e.type = "response_done" =>
                           Received = Some(FallbackAfter(es, Len(es)))
             ELSE IF rt.script.end = "silent"
             THEN rt.hangs
             ELSE /\ ~rt.hangs
                  /\ Received = IF FallbackAfter(es, Len(es)) # <<>>
                                THEN Some(FallbackAfter(es, Len(es))) ELSE None
    /\ (rt.op \in {"send_audio", "commit_audio"} /\ ~RtUsable) =>
          /\ rt.client = rt.before /\ ~rt.raised

\* A fallback text that an error event discards.
C30_Witness ==
    /\ rt.op = "receive_messages" /\ RtUsable
    /\ rt.script.events = <<Ev("text_done", <<" ", "h">>), Ev("error", <<>>)>>
    /\ Received = None

Admins == {u \in userdb.users : u.is_admin}
\* The last request was a delete by an admin of the table.
DeleteByAdmin ==
    /\ userdb.last.op = "delete"
    /\ \E u \in userdb.last.before : u.id = userdb.last.sub /\ u.is_admin

\* C31: once the application has started the users table holds at least one
\* admin, whatever admins create and delete in whatever order; a delete by
\* an admin of their own account is answered 400 and leaves the table as it
\* was, and a delete by an admin removes at most the target and never the
\* requester.
C31_AdminRemains ==
    /\ userdb.started => Admins # {}
    /\ (DeleteByAdmin /\ userdb.last.target = userdb.last.sub) =>
          /\ userdb.last.status = 400
          /\ userdb.users = userdb.last.before
    /\ (DeleteByAdmin /\ userdb.last.target # userdb.last.sub) =>
          /\ userdb.last.status \in {200, 404}
          /\ userdb.users = {u \in userdb.last.before : u.id # userdb.last.target}
          /\ \E u \in Admins : u.id = userdb.last.sub

\* The default admin was deleted by an admin it created, who then asks to
\* delete their own account.
C31_Witness ==
    /\ userdb.started
    /\ Admins = {[id |-> 2, email |-> "u1@example.com", is_admin |-> TRUE]}
    /\ userdb.last = [op |-> "delete", sub |-> 2, target |-> 2, status |-> 400,
                      before |-> userdb.users]

====
